---------------------------- MODULE Spec2Model ----------------------------
(***************************************************************************)
(* Model of the invoice field extractor: the tax reconciler of v2.py, the  *)
(* label locator / value resolver / record loop of extract_invoice.py, and *)
(* the GUI of main.py / ui.py around logic.py.                             *)
(*                                                                         *)
(* Python strings are sequences of one-character strings.  A JSON value is *)
(* a record tagged "none", "str" or "num".  Amounts are integers counting  *)
(* hundredths.  The amounts handed to the tax reconciler have binary-exact *)
(* fractions, so its float arithmetic on them is exact; the sum and the    *)
(* difference of v2.main's check are computed in binary64, bit for bit.    *)
(***************************************************************************)
EXTENDS Integers, Sequences, FiniteSets, TLC

VARIABLES
    data,            \* v2.py: the dict handed to validate_and_fix_taxes (mutated in place)
    dataIn,          \* the dict as it was before the first call
    dataPrev,        \* the dict as it was before the latest call
    taxCalls,        \* number of calls of validate_and_fix_taxes made so far
    taxRaised,       \* TRUE once a call has raised (ValueError out of float())
    words,           \* extract_invoice.py: page.extract_words() of the first page
    locLabel,        \* label_text of the find_label call under study
    locResult,       \* what that find_label call returned
    locDone,         \* TRUE once that find_label call has returned
    page,            \* width and height of the first page
    cropChecks,      \* whether the installed pdfplumber validates crop boxes
    idx,             \* text_based_pdf: number of LABELS entries processed
    row,             \* text_based_pdf: the dict "data" built so far
    raw,             \* what extract_value returned for the latest entry
    calls,           \* the strategies extract_value ran for the latest entry
    textPc,          \* text_based_pdf: "loop", "returned" or "raised"
    normValue,       \* normalize_bill_data: the value, replaced by each call's result
    normIn,          \* the value before the first call
    normPrev,        \* the value before the latest call
    normMode,        \* the mode argument
    normCut,         \* the label the latest invoice_no call broke its loop at
    normCalls,       \* number of normalize_bill_data calls made so far
    regexText,       \* v2.py: the text handed to the tax-ID recognizers
    gstinOut,        \* what extract_gstin_with_regex returned
    gstinDone,       \* TRUE once extract_gstin_with_regex has returned
    buyerOut,        \* what extract_buyer_gstin_with_regex returned
    buyerDone,       \* TRUE once extract_buyer_gstin_with_regex has returned
    folderExists,    \* v2.main: os.path.exists(PDF_FOLDER)
    supported_files, \* the documents of the folder, in listing order
    mainIdx,         \* number of documents the loop has gone through
    rows,            \* the records collected so far
    mainLog,         \* what the loop reported for each document
    mainCsv,         \* the rows written to OUTPUT_CSV
    mainPc,          \* "loop", "returned" or "raised"
    pdf_files,       \* process_invoice_folder: the PDF documents, in listing order
    folderChecks,    \* whether the installed pdfplumber validates crop boxes
    folderIdx,       \* number of documents the loop has gone through
    folderRows,      \* the list "rows"
    folderLog,       \* the documents reported as skipped
    folderCsv,       \* the rows written to output_csv
    folderPc,        \* "loop", "returned" or "raised"
    folder_exists,   \* logic.py: os.path.exists(self.current_folder)
    logicFiles,      \* the PDF documents of current_folder, in listing order
    logicChecks,     \* whether the installed pdfplumber validates crop boxes
    log_callback,    \* whether process_invoices was given a log_callback
    logicIdx,        \* number of documents the loop has gone through
    extracted_data,  \* self.extracted_data
    processed_count, \* processed_count
    skipped_count,   \* skipped_count
    logicLog,        \* the messages passed to log_callback
    logicPc,         \* "start", "loop" or "returned"
    boxRun,          \* extract_invoice.py: the label_words handed to the two crop strategies
    boxPage,         \* the page they are cropped from
    boxRight,        \* the box extract_right_of_label passes to page.crop
    boxBelow,        \* the box extract_below_label passes to page.crop
    csvFile,         \* logic.py: what export_to_csv has written to output_path
    exportResult,    \* how the latest export_to_csv call ended ("none": not called)
    selected_folder, \* ui.py: self.selected_folder (NoFolder: the empty string)
    current_folder,  \* logic.py: self.current_folder
    select_btn,      \* select_folder_btn.isEnabled()
    process_btn,     \* process_btn.isEnabled()
    export_btn,      \* export_btn.isEnabled()
    table,           \* the headers and cells of the results table
    log_text,        \* the lines of the log area
    importable,      \* whether "import extract_invoice" succeeds
    threads,         \* main.py: number of ProcessingThreads inside run()
    signals,         \* the processing_complete signals queued for the UI thread
    logSeen,         \* number of log_message signals of the run delivered to add_log
    guiShown         \* what on_processing_complete reported last ("none": not run)

taxVars == <<data, dataIn, dataPrev, taxCalls, taxRaised>>

locVars == <<words, locLabel, locResult, locDone>>

textVars == <<page, cropChecks, idx, row, raw, calls, textPc>>

normVars == <<normValue, normIn, normPrev, normMode, normCut, normCalls>>

regexVars == <<regexText, gstinOut, gstinDone, buyerOut, buyerDone>>

mainVars == <<folderExists, supported_files, mainIdx, rows, mainLog, mainCsv, mainPc>>

folderVars == <<pdf_files, folderChecks, folderIdx, folderRows, folderLog, folderCsv, folderPc>>

logicVars == <<folder_exists, logicFiles, logicChecks, log_callback, logicIdx, extracted_data, processed_count, skipped_count, logicLog, logicPc>>

boxVars == <<boxRun, boxPage, boxRight, boxBelow>>

exportVars == <<csvFile, exportResult>>

guiVars == <<selected_folder, current_folder, select_btn, process_btn, export_btn, table, log_text, importable, threads, signals, logSeen, guiShown>>

vars ==
    <<data, dataIn, dataPrev, taxCalls, taxRaised, words, locLabel, locResult,
      locDone, page, cropChecks, idx, row, raw, calls, textPc,
      normVars,
      regexVars,
      mainVars,
      folderVars,
      logicVars,
      boxVars,
      exportVars,
      guiVars>>

\* the GUI is not under study
GuiIdle ==
    /\ selected_folder = <<>>
    /\ current_folder = <<>>
    /\ select_btn = FALSE
    /\ process_btn = FALSE
    /\ export_btn = FALSE
    /\ table = <<>>
    /\ log_text = <<>>
    /\ importable = FALSE
    /\ threads = 0
    /\ signals = <<>>
    /\ logSeen = 0
    /\ guiShown = "none"

\* export_to_csv has not been called
ExportIdle ==
    /\ csvFile = <<>>
    /\ exportResult = "none"

\* the crop boxes are not under study
BoxIdle ==
    /\ boxRun = <<>>
    /\ boxPage = [width |-> 0, height |-> 0]
    /\ boxRight = <<>>
    /\ boxBelow = <<>>

\* logic.process_invoices is not under study
LogicIdle ==
    /\ folder_exists = FALSE
    /\ logicFiles = << >>
    /\ logicChecks = FALSE
    /\ log_callback = FALSE
    /\ logicIdx = 0
    /\ extracted_data = << >>
    /\ processed_count = 0
    /\ skipped_count = 0
    /\ logicLog = << >>
    /\ logicPc = "idle"

\* process_invoice_folder is not under study
FolderIdle ==
    /\ pdf_files = << >>
    /\ folderChecks = FALSE
    /\ folderIdx = 0
    /\ folderRows = << >>
    /\ folderLog = << >>
    /\ folderCsv = << >>
    /\ folderPc = "idle"

\* v2.main is not under study
MainIdle ==
    /\ folderExists = FALSE
    /\ supported_files = << >>
    /\ mainIdx = 0
    /\ rows = << >>
    /\ mainLog = << >>
    /\ mainCsv = << >>
    /\ mainPc = "idle"

\* the tax-ID recognizers are not under study
RegexIdle ==
    /\ regexText = << >>
    /\ gstinOut = [t |-> "none"]
    /\ gstinDone = FALSE
    /\ buyerOut = [t |-> "none"]
    /\ buyerDone = FALSE

\* validate_and_fix_taxes is not under study
TaxIdle ==
    /\ data = << >>
    /\ dataIn = << >>
    /\ dataPrev = << >>
    /\ taxCalls = 0
    /\ taxRaised = FALSE

\* find_label is not under study
LocIdle ==
    /\ locLabel = << >>
    /\ locResult = [found |-> FALSE, run |-> <<>>]
    /\ locDone = FALSE

\* text_based_pdf is not under study
TextIdle ==
    /\ words = << >>
    /\ page = [width |-> 0, height |-> 0]
    /\ cropChecks = FALSE
    /\ idx = 0
    /\ row = << >>
    /\ raw = << >>
    /\ calls = << >>
    /\ textPc = "idle"

\* normalize_bill_data is not under study
NormIdle ==
    /\ normValue = << >>
    /\ normIn = << >>
    /\ normPrev = << >>
    /\ normMode = "idle"
    /\ normCut = << >>
    /\ normCalls = 0

(***************************************************************************)
(* Characters and strings                                                  *)
(***************************************************************************)
\* the rupee sign U+20B9, one character, written in ASCII
Rupee == "Rs"

Digits == {"0", "1", "2", "3", "4", "5", "6", "7", "8", "9"}

DigitVal(c) ==
    CASE c = "0" -> 0 [] c = "1" -> 1 [] c = "2" -> 2 [] c = "3" -> 3
      [] c = "4" -> 4 [] c = "5" -> 5 [] c = "6" -> 6 [] c = "7" -> 7
      [] c = "8" -> 8 [] c = "9" -> 9

UpperLetters ==
    <<"A", "B", "C", "D", "E", "F", "G", "H", "I", "J", "K", "L", "M",
      "N", "O", "P", "Q", "R", "S", "T", "U", "V", "W", "X", "Y", "Z">>

LowerLetters ==
    <<"a", "b", "c", "d", "e", "f", "g", "h", "i", "j", "k", "l", "m",
      "n", "o", "p", "q", "r", "s", "t", "u", "v", "w", "x", "y", "z">>

\* str.lower() on one character
LowerChar(c) ==
    IF \E i \in 1..26 : UpperLetters[i] = c
    THEN LowerLetters[CHOOSE i \in 1..26 : UpperLetters[i] = c]
    ELSE c

\* str.lower()
Lower(s) == [i \in 1..Len(s) |-> LowerChar(s[i])]

\* str.upper() on one character
UpperChar(c) ==
    IF \E i \in 1..26 : LowerLetters[i] = c
    THEN UpperLetters[CHOOSE i \in 1..26 : LowerLetters[i] = c]
    ELSE c

\* str.upper()
Upper(s) == [i \in 1..Len(s) |-> UpperChar(s[i])]

\* what Python's str.split() and the regex class \s treat as whitespace
IsSpace(c) == c \in {" ", "\t", "\n"}

\* any(c.isdigit() for c in s)
HasDigit(s) == \E i \in 1..Len(s) : s[i] \in Digits

\* s without its characters that are in drop
RECURSIVE FilterChars(_, _)
FilterChars(s, drop) ==
    IF s = <<>> THEN <<>>
    ELSE IF Head(s) \in drop THEN FilterChars(Tail(s), drop)
    ELSE <<Head(s)>> \o FilterChars(Tail(s), drop)

(***************************************************************************)
(* JSON values of the record                                               *)
(***************************************************************************)
None == [t |-> "none"]

Str(s) == [t |-> "str", s |-> s]

Num(n) == [t |-> "num", n |-> n]

IsStr(v) == v.t = "str"

\* dict.get(key): None when the key is absent
Get(d, k) == IF k \in DOMAIN d THEN d[k] ELSE None

\* d[key] = v: adds the key when it is absent
SetKey(d, k, v) == [x \in (DOMAIN d) \cup {k} |-> IF x = k THEN v ELSE d[x]]

\* Python truthiness of a value (the test in "val or 0")
Truthy(v) ==
    CASE v.t = "none" -> FALSE
      [] v.t = "str" -> v.s # <<>>
      [] v.t = "num" -> v.n # 0


(***************************************************************************)
(* float()                                                                 *)
(***************************************************************************)
\* str.strip()
RECURSIVE LStrip(_)
LStrip(s) == IF s # <<>> /\ IsSpace(Head(s)) THEN LStrip(Tail(s)) ELSE s

RECURSIVE RStrip(_)
RStrip(s) ==
    IF s # <<>> /\ IsSpace(s[Len(s)]) THEN RStrip(SubSeq(s, 1, Len(s) - 1)) ELSE s

Strip(s) == RStrip(LStrip(s))

\* the number written by a run of decimal digits
RECURSIVE IntOf(_)
IntOf(s) ==
    IF s = <<>> THEN 0 ELSE 10 * IntOf(SubSeq(s, 1, Len(s) - 1)) + DigitVal(s[Len(s)])

\* index of the first "." of s, or 0
DotAt(s) ==
    IF \E i \in 1..Len(s) : s[i] = "."
    THEN CHOOSE i \in 1..Len(s) : s[i] = "." /\ \A j \in 1..(i - 1) : s[j] # "."
    ELSE 0

\* the first two fraction digits as hundredths
Hundredths(f) ==
    IF Len(f) = 0 THEN 0
    ELSE IF Len(f) = 1 THEN 10 * DigitVal(f[1])
    ELSE 10 * DigitVal(f[1]) + DigitVal(f[2])

\* float(str) on an unsigned decimal literal: digits with at most one ".", at
\* least one digit.  (No exponent, "inf", "nan" or "_" occurs in the strings
\* drawn here; any other character makes float() raise ValueError.)
ParseUnsigned(s) ==
    LET dot == DotAt(s)
        ip == IF dot = 0 THEN s ELSE SubSeq(s, 1, dot - 1)
        fp == IF dot = 0 THEN <<>> ELSE SubSeq(s, dot + 1, Len(s))
        wellFormed ==
            /\ \A i \in 1..Len(ip) : ip[i] \in Digits
            /\ \A i \in 1..Len(fp) : fp[i] \in Digits
            /\ Len(ip) + Len(fp) > 0
    IN  IF wellFormed
        THEN [ok |-> TRUE, val |-> 100 * IntOf(ip) + Hundredths(fp)]
        ELSE [ok |-> FALSE, val |-> 0]

\* float(str): surrounding whitespace is ignored, one leading sign is allowed
ParseFloat(s) ==
    LET t == Strip(s)
        signed == t # <<>> /\ Head(t) \in {"+", "-"}
        u == ParseUnsigned(IF signed THEN Tail(t) ELSE t)
    IN  IF signed /\ Head(t) = "-" THEN [ok |-> u.ok, val |-> 0 - u.val] ELSE u

\* float(v) for a JSON value: ok = FALSE stands for the exception it raises
\* (ValueError for an unparsable string, TypeError for None)
PyFloat(v) ==
    CASE v.t = "num" -> [ok |-> TRUE, val |-> v.n]
      [] v.t = "str" -> ParseFloat(v.s)
      [] v.t = "none" -> [ok |-> FALSE, val |-> 0]

\* float(v or 0)
FloatOrZero(v) == IF Truthy(v) THEN PyFloat(v) ELSE [ok |-> TRUE, val |-> 0]

(***************************************************************************)
(* v2.py: validate_and_fix_taxes                                           *)
(***************************************************************************)
TaxKeys == {"CGST", "SGST", "IGST"}

\* the strings the null check of validate_and_fix_taxes compares against
NullWords == {<<"n", "u", "l", "l">>, <<"n", "o", "n", "e">>, <<"n", "/", "a">>, <<>>}

\* mutant: the thousands separator is left in place
StripCurrency_KeepsCommas(s) == FilterChars(s, {Rupee, "$", " ", "\t", "\n"})

\* re.sub(r'[<rupee>$,\s]', '', s): cut every such character out of s
StripCurrency(s) == FilterChars(s, {Rupee, "$", ",", " ", "\t", "\n"})

\* mutant: the null check compares without lowercasing
NormalizeTaxValue_CaseSensitive(v) ==
    IF IsStr(v)
    THEN IF v.s \in NullWords THEN None ELSE Str(StripCurrency(v.s))
    ELSE v

\* the body of the first loop for one value of a tax key
NormalizeTaxValue(v) ==
    IF IsStr(v)
    THEN IF Lower(v.s) \in NullWords THEN None ELSE Str(StripCurrency(v.s))
    ELSE v

\* mutant: the loop also visits Taxable_Value and Total_Value
NormalizeTaxKeys_WholeCluster(d) ==
    [k \in DOMAIN d |->
        IF k \in TaxKeys \cup {"Taxable_Value", "Total_Value"}
        THEN NormalizeTaxValue(d[k]) ELSE d[k]]

\* the first loop: only the keys CGST, SGST, IGST are visited
NormalizeTaxKeys(d) ==
    [k \in DOMAIN d |-> IF k \in TaxKeys THEN NormalizeTaxValue(d[k]) ELSE d[k]]

\* is_valid_amount: None is invalid; a float() that raises is invalid
IsValidAmount(v) ==
    IF v = None THEN FALSE
    ELSE LET f == PyFloat(v) IN f.ok /\ f.val > 0

\* mutant: a tie between CGST+SGST and IGST nulls IGST
ValidateAndFixTaxes_TieKeepsPair(d) ==
    LET d1 == NormalizeTaxKeys(d)
        cgst == Get(d1, "CGST")
        sgst == Get(d1, "SGST")
        igst == Get(d1, "IGST")
        fc == FloatOrZero(cgst)
        fs == FloatOrZero(sgst)
        fi == FloatOrZero(igst)
    IN  IF (IsValidAmount(cgst) \/ IsValidAmount(sgst)) /\ IsValidAmount(igst)
        THEN IF ~fc.ok \/ ~fs.ok \/ ~fi.ok
             THEN [raised |-> TRUE, data |-> d1]
             ELSE IF fc.val + fs.val >= fi.val
                  THEN [raised |-> FALSE, data |-> SetKey(d1, "IGST", None)]
                  ELSE [raised |-> FALSE,
                        data |-> SetKey(SetKey(d1, "CGST", None), "SGST", None)]
        ELSE [raised |-> FALSE, data |-> d1]

\* The whole function: raised = TRUE when float(cgst or 0) or float(sgst or 0)
\* raises ValueError inside the exclusivity branch; the dict has then already
\* been rewritten by the first loop.
ValidateAndFixTaxes(d) ==
    LET d1 == NormalizeTaxKeys(d)
        cgst == Get(d1, "CGST")
        sgst == Get(d1, "SGST")
        igst == Get(d1, "IGST")
        has_cgst_sgst == IsValidAmount(cgst) \/ IsValidAmount(sgst)
        has_igst == IsValidAmount(igst)
        fc == FloatOrZero(cgst)
        fs == FloatOrZero(sgst)
        fi == FloatOrZero(igst)
    IN  IF has_cgst_sgst /\ has_igst
        THEN IF ~fc.ok \/ ~fs.ok \/ ~fi.ok
             THEN [raised |-> TRUE, data |-> d1]
             ELSE IF fc.val + fs.val > fi.val
                  THEN [raised |-> FALSE, data |-> SetKey(d1, "IGST", None)]
                  ELSE [raised |-> FALSE,
                        data |-> SetKey(SetKey(d1, "CGST", None), "SGST", None)]
        ELSE [raised |-> FALSE, data |-> d1]

(***************************************************************************)
(* Inputs of the tax reconciler                                            *)
(***************************************************************************)
\* how many times in a row validate_and_fix_taxes is applied to a record
MaxCalls == 2

\* marks a key the JSON object does not have
Absent == [t |-> "absent"]

TaxStrings ==
    { <<>>,
      <<"n", "u", "l", "l">>,
      <<"N", "o", "n", "e">>,
      <<"N", "/", "A">>,
      <<"5", "0">>,
      <<"1", "0", "0">>,
      <<"1", "5", "0">>,
      <<Rupee, " ", "1", ",", "0", "5", "0", ".", "5">>,
      <<Rupee>>,
      <<"0">>,
      <<"-", "5">>,
      <<"a", "b", "c">> }

TaxValues == {Absent, None, Num(10000)} \cup {Str(s) : s \in TaxStrings}

TaxableValues == {Str(<<"n", "u", "l", "l">>), Str(<<Rupee, " ", "1", ",", "0", "0", "0">>)}

TotalValues == {Str(<<>>), Str(<<"1", ",", "2", "0", "0">>)}

RecordKeys == {"Invoice_no", "Taxable_Value", "CGST", "SGST", "IGST", "Total_Value"}

\* the JSON object with these values, without the keys marked Absent
MkData(c, s, i, tv, tot) ==
    LET full == [k \in RecordKeys |->
                    CASE k = "CGST" -> c
                      [] k = "SGST" -> s
                      [] k = "IGST" -> i
                      [] k = "Taxable_Value" -> tv
                      [] k = "Total_Value" -> tot
                      [] OTHER -> Str(<<"P", "P", "1">>)]
    IN  [k \in {x \in RecordKeys : full[x] # Absent} |-> full[k]]

InitTax ==
    /\ \E c \in TaxValues, s \in TaxValues, i \in TaxValues,
          tv \in TaxableValues, tot \in TotalValues :
            data = MkData(c, s, i, tv, tot)
    /\ dataIn = data
    /\ dataPrev = data
    /\ taxCalls = 0
    /\ taxRaised = FALSE
    /\ words = <<>>
    /\ locLabel = <<>>
    /\ locResult = [found |-> FALSE, run |-> <<>>]
    /\ locDone = FALSE
    /\ page = [width |-> 0, height |-> 0]
    /\ cropChecks = FALSE
    /\ idx = 0
    /\ row = << >>
    /\ raw = << >>
    /\ calls = << >>
    /\ textPc = "idle"
    /\ NormIdle
    /\ RegexIdle
    /\ MainIdle
    /\ FolderIdle
    /\ LogicIdle
    /\ BoxIdle
    /\ ExportIdle
    /\ GuiIdle

\* one call data = validate_and_fix_taxes(data)
ValidateAndFix ==
    /\ taxCalls < MaxCalls
    /\ ~taxRaised
    /\ LET r == ValidateAndFixTaxes(data)
       IN  /\ data' = r.data
           /\ taxRaised' = r.raised
    /\ taxCalls' = taxCalls + 1
    /\ dataPrev' = data
    /\ UNCHANGED <<dataIn, locVars, textVars, normVars, regexVars, mainVars, folderVars, logicVars, boxVars, exportVars, guiVars>>

NextTax == ValidateAndFix

SpecTax == InitTax /\ [][NextTax]_vars


(***************************************************************************)
(* extract_invoice.py: configuration and text helpers                      *)
(***************************************************************************)
\* LABELS: field key -> label text, in insertion order
LabelKeys == <<"Invoice_No", "Bill_From", "Bill_To", "Invoice_Date", "CGST", "SGST", "Total">>

LabelTexts ==
    << <<"I", "n", "v", "o", "i", "c", "e", " ", "N", "o">>,
       <<"B", "i", "l", "l", " ", "F", "r", "o", "m">>,
       <<"B", "i", "l", "l", " ", "T", "o">>,
       <<"I", "n", "v", "o", "i", "c", "e", " ", "D", "a", "t", "e">>,
       <<"C", "G", "S", "T">>,
       <<"S", "G", "S", "T">>,
       <<"T", "o", "t", "a", "l">> >>

\* ALL_LABELS: the lowercased label texts
ALL_LABELS == {Lower(LabelTexts[i]) : i \in 1..Len(LabelTexts)}

\* COLUMN_TABLE_FIELDS
COLUMN_TABLE_FIELDS == { <<"C", "G", "S", "T">>, <<"S", "G", "S", "T">>, <<"T", "o", "t", "a", "l">> }

\* str.split(): the maximal runs of non-whitespace characters
RECURSIVE SplitFrom(_, _)
SplitFrom(s, cur) ==
    IF s = <<>> THEN (IF cur = <<>> THEN <<>> ELSE <<cur>>)
    ELSE IF IsSpace(Head(s))
         THEN (IF cur = <<>> THEN <<>> ELSE <<cur>>) \o SplitFrom(Tail(s), <<>>)
         ELSE SplitFrom(Tail(s), Append(cur, Head(s)))

Split(s) == SplitFrom(s, <<>>)

\* sep.join(parts)
RECURSIVE Join(_, _)
Join(parts, sep) ==
    IF parts = <<>> THEN <<>>
    ELSE IF Len(parts) = 1 THEN parts[1]
    ELSE parts[1] \o sep \o Join(Tail(parts), sep)

\* clean(text): "" for an empty text, else the words joined by single spaces
Clean(text) == IF text = <<>> THEN <<>> ELSE Join(Split(text), <<" ">>)

(***************************************************************************)
(* extract_invoice.py: find_label                                          *)
(***************************************************************************)
\* a word of page.extract_words()
Token(text, x0, x1, top, bottom) ==
    [text |-> text, x0 |-> x0, x1 |-> x1, top |-> top, bottom |-> bottom]

\* all(words[i + j]["text"] == label_words[j] for j in range(len(label_words))),
\* with i counted from 1
MatchesAt(ws, label_words, i) ==
    \A j \in 1..Len(label_words) : ws[i + j - 1].text = label_words[j]

\* find_label: the start index runs over range(len(words) - len(label_words)),
\* i.e. 1..(n - k) counted from 1; found = FALSE stands for the return of None
FindLabel(ws, label_text) ==
    LET label_words == Split(label_text)
        k == Len(label_words)
        hits == {i \in 1..(Len(ws) - k) : MatchesAt(ws, label_words, i)}
    IN  IF hits = {} THEN [found |-> FALSE, run |-> <<>>]
        ELSE LET i == CHOOSE h \in hits : \A g \in hits : h <= g
             IN  [found |-> TRUE, run |-> SubSeq(ws, i, i + k - 1)]

(***************************************************************************)
(* extract_invoice.py: the three extraction strategies                     *)
(***************************************************************************)
\* extract_same_column_below_words: y_gap, max_height and the column drift
Y_GAP == 5

MAX_HEIGHT == 60

COL_DRIFT == 10

\* extract_right_of_label: the gap right of the label and max_width
RIGHT_GAP == 5

MAX_WIDTH == 200

\* extract_below_label: the gap below the label, the box width and height
BELOW_GAP == 5

BELOW_WIDTH == 200

BELOW_HEIGHT == 40

Min2(a, b) == IF a <= b THEN a ELSE b

MinOf(S) == CHOOSE m \in S : \A x \in S : m <= x

MaxOf(S) == CHOOSE m \in S : \A x \in S : x <= m

\* the subsequence of ws whose elements are in the set keep
RECURSIVE FilterSeq(_, _)
FilterSeq(ws, keep) ==
    IF ws = <<>> THEN <<>>
    ELSE IF Head(ws) \in keep THEN <<Head(ws)>> \o FilterSeq(Tail(ws), keep)
    ELSE FilterSeq(Tail(ws), keep)

\* list.sort(key=lambda w: w["x0"]): stable, ascending x0
RECURSIVE InsertByX0(_, _)
InsertByX0(sorted, w) ==
    IF sorted = <<>> THEN <<w>>
    ELSE IF Head(sorted).x0 <= w.x0 THEN <<Head(sorted)>> \o InsertByX0(Tail(sorted), w)
    ELSE <<w>> \o sorted

RECURSIVE SortByX0(_)
SortByX0(ws) ==
    IF ws = <<>> THEN <<>>
    ELSE InsertByX0(SortByX0(SubSeq(ws, 1, Len(ws) - 1)), ws[Len(ws)])

TextsOf(ws) == [i \in 1..Len(ws) |-> ws[i].text]

\* extract_same_column_below_words; the centre test (x0 + x1) / 2 is written
\* with both sides doubled
ColumnBelow(ws, label_words) ==
    LET col_left == MinOf({label_words[i].x0 : i \in 1..Len(label_words)})
        col_right == MaxOf({label_words[i].x1 : i \in 1..Len(label_words)})
        label_bottom == MaxOf({label_words[i].bottom : i \in 1..Len(label_words)})
        candidates ==
            FilterSeq(ws, {ws[i] : i \in {j \in 1..Len(ws) :
                /\ label_bottom + Y_GAP < ws[j].top
                /\ ws[j].top < label_bottom + MAX_HEIGHT
                /\ 2 * (col_left - COL_DRIFT) <= ws[j].x0 + ws[j].x1
                /\ ws[j].x0 + ws[j].x1 <= 2 * (col_right + COL_DRIFT)}})
    IN  Clean(Join(TextsOf(SortByX0(candidates)), <<" ">>))

\* the box of extract_right_of_label
RightBox(pg, label_words) ==
    LET last == label_words[Len(label_words)]
        x0 == last.x1 + RIGHT_GAP
    IN  [x0 |-> x0, top |-> last.top,
         x1 |-> Min2(x0 + MAX_WIDTH, pg.width), bottom |-> last.bottom]

\* the box of extract_below_label
BelowBox(pg, label_words) ==
    LET first == label_words[1]
        x0 == first.x0
        top == first.bottom + BELOW_GAP
    IN  [x0 |-> x0, top |-> top,
         x1 |-> Min2(x0 + BELOW_WIDTH, pg.width),
         bottom |-> Min2(top + BELOW_HEIGHT, pg.height)]

\* page.crop(box) accepts the box: it has a positive area and lies on the page
BoxOnPage(pg, box) ==
    /\ box.x0 < box.x1 /\ box.top < box.bottom
    /\ 0 <= box.x0 /\ box.x1 <= pg.width
    /\ 0 <= box.top /\ box.bottom <= pg.height

\* the word's bounding box overlaps the crop box
Overlaps(w, box) ==
    /\ w.x0 < box.x1 /\ w.x1 > box.x0
    /\ w.top < box.bottom /\ w.bottom > box.top

\* extract_text() of the captured words: a new line where the top changes
RECURSIVE LayoutText(_)
LayoutText(ws) ==
    IF ws = <<>> THEN <<>>
    ELSE IF Len(ws) = 1 THEN ws[1].text
    ELSE ws[1].text \o (IF ws[2].top = ws[1].top THEN <<" ">> ELSE <<"\n">>)
            \o LayoutText(Tail(ws))

\* clean(page.crop(box).extract_text()): the words that overlap the box, in
\* reading order.  A box page.crop does not accept makes a validating
\* pdfplumber raise ValueError (raised = TRUE); one that does not validate
\* captures nothing.
CropText(pg, ws, box, validating) ==
    IF BoxOnPage(pg, box)
    THEN [raised |-> FALSE,
          text |-> Clean(LayoutText(FilterSeq(ws,
                      {ws[i] : i \in {j \in 1..Len(ws) : Overlaps(ws[j], box)}})))]
    ELSE [raised |-> validating, text |-> <<>>]

ExtractRightOfLabel(pg, ws, label_words, validating) ==
    CropText(pg, ws, RightBox(pg, label_words), validating)

ExtractBelowLabel(pg, ws, label_words, validating) ==
    CropText(pg, ws, BelowBox(pg, label_words), validating)

\* mutant: the digit test is left out
RightAccepted_NoDigitTest(right) ==
    /\ right # <<>>
    /\ Lower(right) \notin ALL_LABELS

\* the test extract_value applies to the right-of-label capture
RightAccepted(right) ==
    /\ right # <<>>
    /\ Lower(right) \notin ALL_LABELS
    /\ HasDigit(right)

\* mutant: the right-of-label strategy runs before the column strategy
ExtractValue_RightFirst(pg, ws, label_text, validating) ==
    LET found == FindLabel(ws, label_text)
        label_words == found.run
        isColumn == label_text \in COLUMN_TABLE_FIELDS
        column == IF isColumn THEN ColumnBelow(ws, label_words) ELSE <<>>
        post == IF isColumn THEN <<"column">> ELSE <<>>
        right == ExtractRightOfLabel(pg, ws, label_words, validating)
        below == ExtractBelowLabel(pg, ws, label_words, validating)
    IN  IF ~found.found \/ label_words = <<>>
        THEN [raised |-> FALSE, value |-> <<>>, calls |-> <<>>]
        ELSE IF right.raised
        THEN [raised |-> TRUE, value |-> <<>>, calls |-> <<"right">>]
        ELSE IF RightAccepted(right.text)
        THEN [raised |-> FALSE, value |-> right.text, calls |-> <<"right">>]
        ELSE IF isColumn /\ column # <<>>
        THEN [raised |-> FALSE, value |-> column, calls |-> <<"right">> \o post]
        ELSE IF below.raised
        THEN [raised |-> TRUE, value |-> <<>>, calls |-> <<"right">> \o post \o <<"below">>]
        ELSE [raised |-> FALSE, value |-> below.text,
              calls |-> <<"right">> \o post \o <<"below">>]

\* extract_value: value is the string returned, calls the strategies run, in
\* order, and raised = TRUE when page.crop raised
ExtractValue(pg, ws, label_text, validating) ==
    LET found == FindLabel(ws, label_text)
        label_words == found.run
        isColumn == label_text \in COLUMN_TABLE_FIELDS
        column == IF isColumn THEN ColumnBelow(ws, label_words) ELSE <<>>
        pre == IF isColumn THEN <<"column">> ELSE <<>>
        right == ExtractRightOfLabel(pg, ws, label_words, validating)
        below == ExtractBelowLabel(pg, ws, label_words, validating)
    IN  IF ~found.found \/ label_words = <<>>
        THEN [raised |-> FALSE, value |-> <<>>, calls |-> <<>>]
        ELSE IF isColumn /\ column # <<>>
        THEN [raised |-> FALSE, value |-> column, calls |-> pre]
        ELSE IF right.raised
        THEN [raised |-> TRUE, value |-> <<>>, calls |-> pre \o <<"right">>]
        ELSE IF RightAccepted(right.text)
        THEN [raised |-> FALSE, value |-> right.text, calls |-> pre \o <<"right">>]
        ELSE IF below.raised
        THEN [raised |-> TRUE, value |-> <<>>, calls |-> pre \o <<"right", "below">>]
        ELSE [raised |-> FALSE, value |-> below.text,
              calls |-> pre \o <<"right", "below">>]

(***************************************************************************)
(* extract_invoice.py: normalize_bill_data                                 *)
(***************************************************************************)
\* s[i..] starts with sub
StartsAt(s, sub, i) ==
    /\ i + Len(sub) - 1 <= Len(s)
    /\ \A j \in 1..Len(sub) : s[i + j - 1] = sub[j]

\* str.find(sub), counted from 1; 0 stands for -1
Find(s, sub) ==
    LET hits == {i \in 1..(Len(s) + 1) : StartsAt(s, sub, i)}
    IN  IF hits = {} THEN 0 ELSE MinOf(hits)

\* the regex class \w on the characters used here
IsWordChar(c) ==
    \/ c \in Digits
    \/ c = "_"
    \/ \E i \in 1..26 : c = UpperLetters[i] \/ c = LowerLetters[i]

\* the regex \b between positions i - 1 and i of s
BoundaryBefore(s, i) ==
    LET prevWord == i > 1 /\ IsWordChar(s[i - 1])
        nextWord == i <= Len(s) /\ IsWordChar(s[i])
    IN  prevWord # nextWord

\* length of the run of digits of s that starts at position i
RECURSIVE DigitRun(_, _)
DigitRun(s, i) ==
    IF i <= Len(s) /\ s[i] \in Digits THEN 1 + DigitRun(s, i + 1) ELSE 0

\* re.search(r"\bPP\d{6,}\b", s, re.IGNORECASE): the leftmost match, or <<>>.
\* The greedy digit run cannot give digits back: \b fails between two digits.
SearchPP(s) ==
    LET ok(i) ==
            /\ i + 1 <= Len(s)
            /\ LowerChar(s[i]) = "p" /\ LowerChar(s[i + 1]) = "p"
            /\ BoundaryBefore(s, i)
            /\ DigitRun(s, i + 2) >= 6
            /\ BoundaryBefore(s, i + 2 + DigitRun(s, i + 2))
        hits == {i \in 1..Len(s) : ok(i)}
    IN  IF hits = {} THEN <<>>
        ELSE LET i == MinOf(hits) IN SubSeq(s, i, i + 1 + DigitRun(s, i + 2))

\* re.search(r"\b\d{6,}\b", s): the leftmost match, or <<>>
SearchDigits(s) ==
    LET ok(i) ==
            /\ BoundaryBefore(s, i)
            /\ DigitRun(s, i) >= 6
            /\ BoundaryBefore(s, i + DigitRun(s, i))
        hits == {i \in 1..Len(s) : ok(i)}
    IN  IF hits = {} THEN <<>>
        ELSE LET i == MinOf(hits) IN SubSeq(s, i, i + DigitRun(s, i) - 1)

\* the labels of ALL_LABELS that occur in the lowercased value
LabelsIn(value) == {l \in ALL_LABELS : Find(Lower(value), l) # 0}

\* The label at which "for label in ALL_LABELS" breaks: ALL_LABELS is a set
\* of str, whose iteration order changes from one interpreter run to the next
\* (hash randomization), so any label that occurs can be the first one met.
\* <<>> stands for "no label occurs".
CutChoices(value) == IF LabelsIn(value) = {} THEN {<<>>} ELSE LabelsIn(value)

\* mutant: the bare digit run is searched before the PP token
NormalizeInvoiceNo_DigitsFirst(value, cut) ==
    LET truncated ==
            IF cut = <<>> THEN value
            ELSE SubSeq(value, 1, Find(Lower(value), cut) - 1)
        v == Strip(truncated)
        pp_match == SearchPP(v)
        digit_match == SearchDigits(v)
    IN  IF digit_match # <<>> THEN <<"P", "P">> \o digit_match
        ELSE IF pp_match # <<>> THEN Upper(pp_match)
        ELSE v

\* mode "invoice_no"; cut is the label the loop breaks at
NormalizeInvoiceNo(value, cut) ==
    LET truncated ==
            IF cut = <<>> THEN value
            ELSE SubSeq(value, 1, Find(Lower(value), cut) - 1)
        v == Strip(truncated)
        pp_match == SearchPP(v)
        digit_match == SearchDigits(v)
    IN  IF pp_match # <<>> THEN Upper(pp_match)
        ELSE IF digit_match # <<>> THEN <<"P", "P">> \o digit_match
        ELSE v

\* mode "bill": the first two words
NormalizeBill(value) ==
    LET ws == Split(value)
    IN  Join(SubSeq(ws, 1, Min2(2, Len(ws))), <<" ">>)

\* mutant: the rupee sign is prepended whether or not the value has one
NormalizeTotal_NoMarkerTest(value) ==
    IF HasDigit(value) THEN <<Rupee, " ">> \o value ELSE value

\* mode "total": the rupee sign and a space before a value that has a digit
\* and no rupee sign
NormalizeTotal(value) ==
    IF (\A i \in 1..Len(value) : value[i] # Rupee) /\ HasDigit(value)
    THEN <<Rupee, " ">> \o value
    ELSE value

\* normalize_bill_data(value, mode)
NormalizeBillData(value, mode, cut) ==
    IF value = <<>> THEN value
    ELSE CASE mode = "invoice_no" -> NormalizeInvoiceNo(value, cut)
           [] mode = "bill" -> NormalizeBill(value)
           [] mode = "total" -> NormalizeTotal(value)
           [] OTHER -> value

\* the normalizations text_based_pdf applies to the value of one label
NormalizeField(label, value, cut) ==
    LET v1 == IF label = <<"I", "n", "v", "o", "i", "c", "e", " ", "N", "o">>
              THEN NormalizeBillData(value, "invoice_no", cut) ELSE value
        v2 == IF label \in { <<"B", "i", "l", "l", " ", "F", "r", "o", "m">>, <<"B", "i", "l", "l", " ", "T", "o">> }
              THEN NormalizeBillData(v1, "bill", cut) ELSE v1
    IN  IF label = <<"T", "o", "t", "a", "l">> THEN NormalizeBillData(v2, "total", cut) ELSE v2

(***************************************************************************)
(* The label locator on its own: a token sequence and one find_label call  *)
(***************************************************************************)
\* longest token sequence scanned
MaxLocWords == 4

LocVocab == { <<"I", "n", "v", "o", "i", "c", "e">>, <<"N", "o">>, <<"D", "a", "t", "e">>, <<"T", "o", "t", "a", "l">> }

LocLabels == { <<"I", "n", "v", "o", "i", "c", "e", " ", "N", "o">>, <<"I", "n", "v", "o", "i", "c", "e", " ", "D", "a", "t", "e">>, <<"T", "o", "t", "a", "l">> }

\* the words of one text line: the i-th word starts at x0 = 40 * i
LineOf(texts) ==
    [i \in 1..Len(texts) |-> Token(texts[i], 40 * i, 40 * i + 30, 10, 20)]

InitLocate ==
    /\ \E n \in 0..MaxLocWords : \E texts \in [1..n -> LocVocab] : words = LineOf(texts)
    /\ locLabel \in LocLabels
    /\ locResult = [found |-> FALSE, run |-> <<>>]
    /\ locDone = FALSE
    /\ data = << >>
    /\ dataIn = << >>
    /\ dataPrev = << >>
    /\ taxCalls = 0
    /\ taxRaised = FALSE
    /\ page = [width |-> 0, height |-> 0]
    /\ cropChecks = FALSE
    /\ idx = 0
    /\ row = << >>
    /\ raw = << >>
    /\ calls = << >>
    /\ textPc = "idle"
    /\ NormIdle
    /\ RegexIdle
    /\ MainIdle
    /\ FolderIdle
    /\ LogicIdle
    /\ BoxIdle
    /\ ExportIdle
    /\ GuiIdle

\* label_words = find_label(words, label_text)
Locate ==
    /\ ~locDone
    /\ locResult' = FindLabel(words, locLabel)
    /\ locDone' = TRUE
    /\ UNCHANGED <<words, locLabel, taxVars, textVars, normVars, regexVars, mainVars, folderVars, logicVars, boxVars, exportVars, guiVars>>

NextLocate == Locate

SpecLocate == InitLocate /\ [][NextLocate]_vars

(***************************************************************************)
(* text_based_pdf on one page                                              *)
(***************************************************************************)
\* most words on a page
MaxPageWords == 5

\* the page the words below lie on
PageSize == [width |-> 300, height |-> 200]

\* The words a page can hold, in the reading order of extract_words: a header
\* line, a line of table headers and amounts, a line of amounts below it and
\* a footer line.  "No" is a little shorter than "Invoice"; "CGST" ends 2
\* units from the right page edge and "SGST" 3 units from the bottom edge.
PagePool ==
    << Token(<<"I", "n", "v", "o", "i", "c", "e">>, 10, 50, 10, 20),
       Token(<<"N", "o">>, 55, 70, 11, 19),
       Token(<<"B", "i", "l", "l">>, 80, 100, 10, 20),
       Token(<<"T", "o">>, 105, 120, 10, 20),
       Token(<<"1", "2", "3", "4", "5", "6", "7">>, 130, 180, 10, 20),
       Token(<<"C", "G", "S", "T">>, 280, 298, 10, 20),
       Token(<<"T", "o", "t", "a", "l">>, 10, 40, 40, 50),
       Token(<<"P", "a", "i", "d">>, 50, 80, 40, 50),
       Token(<<"9", "9">>, 90, 110, 40, 50),
       Token(<<Rupee>>, 12, 18, 60, 70),
       Token(<<"4", "5", "0">>, 20, 40, 60, 70),
       Token(<<"7">>, 150, 160, 60, 70),
       Token(<<"S", "G", "S", "T">>, 10, 40, 185, 197),
       Token(<<"P", "a", "g", "e">>, 250, 280, 185, 197) >>

\* the words of PagePool at the positions in S, in reading order
RECURSIVE PickFrom(_, _)
PickFrom(S, i) ==
    IF i > Len(PagePool) THEN <<>>
    ELSE (IF i \in S THEN <<PagePool[i]>> ELSE <<>>) \o PickFrom(S, i + 1)

PageWords(S) == PickFrom(S, 1)

InitText ==
    /\ \E S \in SUBSET (1..Len(PagePool)) :
          /\ Cardinality(S) <= MaxPageWords
          /\ words = PageWords(S)
    /\ page = PageSize
    /\ cropChecks \in BOOLEAN
    /\ idx = 0
    /\ row = << >>
    /\ raw = << >>
    /\ calls = << >>
    /\ textPc = "loop"
    /\ locLabel = << >>
    /\ locResult = [found |-> FALSE, run |-> <<>>]
    /\ locDone = FALSE
    /\ data = << >>
    /\ dataIn = << >>
    /\ dataPrev = << >>
    /\ taxCalls = 0
    /\ taxRaised = FALSE
    /\ NormIdle
    /\ RegexIdle
    /\ MainIdle
    /\ FolderIdle
    /\ LogicIdle
    /\ BoxIdle
    /\ ExportIdle
    /\ GuiIdle

\* mutant: an empty value is not stored
StoreField_SkipsEmpty(r, key, value) == IF value = <<>> THEN r ELSE SetKey(r, key, value)

\* data[key] = value
StoreField(r, key, value) == SetKey(r, key, value)

\* one iteration of "for key, label in LABELS.items()" in which extract_value
\* returns; after the last one text_based_pdf returns data
ExtractField ==
    /\ textPc = "loop"
    /\ idx < Len(LabelKeys)
    /\ LET key == LabelKeys[idx + 1]
           label == LabelTexts[idx + 1]
           r == ExtractValue(page, words, label, cropChecks)
       IN  /\ ~r.raised
           /\ \E cut \in (IF label = <<"I", "n", "v", "o", "i", "c", "e", " ", "N", "o">> THEN CutChoices(r.value) ELSE {<<>>}) :
                 row' = StoreField(row, key, NormalizeField(label, r.value, cut))
           /\ raw' = r.value
           /\ calls' = r.calls
    /\ idx' = idx + 1
    /\ textPc' = IF idx + 1 = Len(LabelKeys) THEN "returned" ELSE "loop"
    /\ UNCHANGED <<words, page, cropChecks, locLabel, locResult, locDone, taxVars, normVars, regexVars, mainVars, folderVars, logicVars, boxVars, exportVars, guiVars>>

\* an iteration in which page.crop raises: the exception leaves text_based_pdf
ExtractFieldRaises ==
    /\ textPc = "loop"
    /\ idx < Len(LabelKeys)
    /\ LET r == ExtractValue(page, words, LabelTexts[idx + 1], cropChecks)
       IN  /\ r.raised
           /\ calls' = r.calls
    /\ textPc' = "raised"
    /\ UNCHANGED <<idx, row, raw, words, page, cropChecks, locLabel, locResult,
                   locDone, taxVars, normVars, regexVars, mainVars, folderVars, logicVars, boxVars, exportVars, guiVars>>

NextText == ExtractField \/ ExtractFieldRaises

SpecText == InitText /\ [][NextText]_vars

(***************************************************************************)
(* normalize_bill_data on its own: a value, a mode and repeated calls      *)
(***************************************************************************)
\* how many words a value handed to normalize_bill_data has
MaxNormWords == 3

\* how many times in a row normalize_bill_data is applied to a value
MaxNormCalls == 2

NormVocab ==
    << <<"P", "P", "1", "2", "3", "4", "5", "6", "7">>, <<"p", "p", "1", "2", "3", "4", "5", "6">>, <<"1", "2", "3", "4", "5", "6", "7">>, <<"B", "i", "l", "l", " ", "T", "o">>, <<"T", "o", "t", "a", "l">>,
       <<"A", "c", "m", "e">>, <<Rupee>>, <<"4", "5", "0", ".", "0", "0">> >>

NormModes == {"invoice_no", "bill", "total"}

\* the values: up to MaxNormWords entries of NormVocab joined by single spaces
NormValues ==
    {Join([i \in 1..Len(f) |-> NormVocab[f[i]]], <<" ">>) :
        f \in UNION {[1..k -> 1..Len(NormVocab)] : k \in 0..MaxNormWords}}

InitNorm ==
    /\ normValue \in NormValues
    /\ normIn = normValue
    /\ normPrev = normValue
    /\ normMode \in NormModes
    /\ normCut = << >>
    /\ normCalls = 0
    /\ TaxIdle
    /\ LocIdle
    /\ TextIdle
    /\ RegexIdle
    /\ MainIdle
    /\ FolderIdle
    /\ LogicIdle
    /\ BoxIdle
    /\ ExportIdle
    /\ GuiIdle

\* one call value = normalize_bill_data(value, mode)
Normalize ==
    /\ normCalls < MaxNormCalls
    /\ \E cut \in (IF normMode = "invoice_no" THEN CutChoices(normValue) ELSE {<<>>}) :
          /\ normValue' = NormalizeBillData(normValue, normMode, cut)
          /\ normCut' = cut
    /\ normPrev' = normValue
    /\ normCalls' = normCalls + 1
    /\ UNCHANGED <<normIn, normMode, taxVars, locVars, textVars, regexVars, mainVars, folderVars, logicVars, boxVars, exportVars, guiVars>>

NextNorm == Normalize

SpecNorm == InitNorm /\ [][NextNorm]_vars

(***************************************************************************)
(* v2.py: the tax-ID recognizers                                           *)
(***************************************************************************)
UpperSet == {UpperLetters[i] : i \in 1..26}

LowerSet == {LowerLetters[i] : i \in 1..26}

\* the class [A-Z]; ic: the pattern is compiled with re.IGNORECASE
IsLetter(c, ic) == c \in UpperSet \/ (ic /\ c \in LowerSet)

\* the class [A-Z0-9]
IsAlnum(c, ic) == c \in Digits \/ IsLetter(c, ic)

\* [0-9]{2}[A-Z]{5}[0-9]{4}[A-Z]{1}[A-Z0-9]{1}[Z]{1}[A-Z0-9]{1} matches s[i..i+14]
GrammarAt(s, i, ic) ==
    /\ i >= 1
    /\ i + 14 <= Len(s)
    /\ s[i] \in Digits
    /\ s[i + 1] \in Digits
    /\ \A k \in 2..6 : IsLetter(s[i + k], ic)
    /\ \A k \in 7..10 : s[i + k] \in Digits
    /\ IsLetter(s[i + 11], ic)
    /\ IsAlnum(s[i + 12], ic)
    /\ s[i + 13] = "Z" \/ (ic /\ s[i + 13] = "z")
    /\ IsAlnum(s[i + 14], ic)

\* [0-9]{2}[A-Z0-9]{13} matches s[i..i+14]
LooseAt(s, i, ic) ==
    /\ i >= 1
    /\ i + 14 <= Len(s)
    /\ s[i] \in Digits
    /\ s[i + 1] \in Digits
    /\ \A k \in 2..14 : IsAlnum(s[i + k], ic)

\* the literal lit (given in lower case) matches at s[i..], ignoring case
LitAt(s, i, lit) ==
    /\ i + Len(lit) - 1 <= Len(s)
    /\ \A j \in 1..Len(lit) : s[i + j - 1] \in {lit[j], UpperChar(lit[j])}

\* length of the run of characters of the class cls that starts at s[i]
RunLen(s, i, cls) ==
    LET stops == {j \in i..Len(s) : s[j] \notin cls}
    IN  IF i > Len(s) THEN 0
        ELSE IF stops = {} THEN Len(s) - i + 1
        ELSE MinOf(stops) - i

\* the class \s
SpaceClass == {" ", "\t", "\n"}

\* the class [\s:]
SepClass == SpaceClass \cup {":"}

\* a\s*b at s[i..], ignoring case: the position after the match, or 0
TwoWordsEnd(s, i, a, b) ==
    IF ~LitAt(s, i, a) THEN 0
    ELSE LET j == i + Len(a) + RunLen(s, i + Len(a), SpaceClass)
         IN  IF LitAt(s, j, b) THEN j + Len(b) ELSE 0

\* (?:GSTIN|GST\s*No|GST\s*IN|PAN) at s[i..]: the position after it, or 0
GstinKeywordEnd(s, i) ==
    IF LitAt(s, i, <<"g", "s", "t", "i", "n">>) THEN i + 5
    ELSE IF TwoWordsEnd(s, i, <<"g", "s", "t">>, <<"n", "o">>) # 0 THEN TwoWordsEnd(s, i, <<"g", "s", "t">>, <<"n", "o">>)
    ELSE IF TwoWordsEnd(s, i, <<"g", "s", "t">>, <<"i", "n">>) # 0 THEN TwoWordsEnd(s, i, <<"g", "s", "t">>, <<"i", "n">>)
    ELSE IF LitAt(s, i, <<"p", "a", "n">>) THEN i + 3
    ELSE 0

\* patterns[0] at s[i..]: where its group starts, or 0.  [\s:]+ takes the
\* whole run of separators: the group starts with a digit.
AnchoredAt(s, i) ==
    LET e == GstinKeywordEnd(s, i)
        n == IF e = 0 THEN 0 ELSE RunLen(s, e, SepClass)
    IN  IF e # 0 /\ n >= 1 /\ GrammarAt(s, e + n, TRUE) THEN e + n ELSE 0

\* the starts of the matches of \b(...)\b, the group being 15 characters
\* that satisfy the strict grammar or the loose one: a match is a whole run of word characters
BareStarts(s, strict, ic) ==
    {i \in 1..Len(s) :
        /\ s[i] \in Digits
        /\ IF strict THEN GrammarAt(s, i, ic) ELSE LooseAt(s, i, ic)
        /\ BoundaryBefore(s, i)
        /\ BoundaryBefore(s, i + 15)}

\* mutant: the bare strict grammar is tried before the keyword-anchored one
ExtractGstinWithRegex_BareFirst(text) ==
    LET anchored == {i \in 1..Len(text) : text[i] \in {"G", "g", "P", "p"} /\ AnchoredAt(text, i) # 0}
        strict == BareStarts(text, TRUE, TRUE)
        loose == BareStarts(text, FALSE, TRUE)
        at(p) == Str(Upper(SubSeq(text, p, p + 14)))
    IN  IF strict # {} THEN at(MinOf(strict))
        ELSE IF anchored # {} THEN at(AnchoredAt(text, MinOf(anchored)))
        ELSE IF loose # {} THEN at(MinOf(loose))
        ELSE None

\* extract_gstin_with_regex(text): the first match of the first pattern that
\* has one, uppercased (every match is 15 long and starts with two digits)
ExtractGstinWithRegex(text) ==
    LET anchored == {i \in 1..Len(text) : text[i] \in {"G", "g", "P", "p"} /\ AnchoredAt(text, i) # 0}
        strict == BareStarts(text, TRUE, TRUE)
        loose == BareStarts(text, FALSE, TRUE)
        at(p) == Str(Upper(SubSeq(text, p, p + 14)))
    IN  IF anchored # {} THEN at(AnchoredAt(text, MinOf(anchored)))
        ELSE IF strict # {} THEN at(MinOf(strict))
        ELSE IF loose # {} THEN at(MinOf(loose))
        ELSE None

\* the bound of [\s\S]{0,500}?
BUYER_WINDOW == 500

\* (?:Bill\s*To|Buyer|Consignee|Ship\s*To) at s[i..]: the position after it, or 0
BuyerKeywordEnd(s, i) ==
    IF TwoWordsEnd(s, i, <<"b", "i", "l", "l">>, <<"t", "o">>) # 0 THEN TwoWordsEnd(s, i, <<"b", "i", "l", "l">>, <<"t", "o">>)
    ELSE IF LitAt(s, i, <<"b", "u", "y", "e", "r">>) THEN i + 5
    ELSE IF LitAt(s, i, <<"c", "o", "n", "s", "i", "g", "n", "e", "e">>) THEN i + 9
    ELSE IF TwoWordsEnd(s, i, <<"s", "h", "i", "p">>, <<"t", "o">>) # 0 THEN TwoWordsEnd(s, i, <<"s", "h", "i", "p">>, <<"t", "o">>)
    ELSE 0

\* the gaps d for which the buyer pattern matches with its keyword at s[i..]
BuyerGaps(s, i) ==
    LET e == BuyerKeywordEnd(s, i)
    IN  IF e = 0 THEN {}
        ELSE {d \in 0..BUYER_WINDOW : e + d <= Len(s) /\ s[e + d] \in Digits /\ GrammarAt(s, e + d, TRUE)}

\* extract_buyer_gstin_with_regex(text)
ExtractBuyerGstinWithRegex(text) ==
    LET starts == {i \in 1..Len(text) : text[i] \in {"B", "b", "C", "c", "S", "s"} /\ BuyerGaps(text, i) # {}}
        all_gstins == BareStarts(text, TRUE, FALSE)
        at(p) == Str(Upper(SubSeq(text, p, p + 14)))
    IN  IF starts # {}
        THEN LET i == MinOf(starts)
             IN  at(BuyerKeywordEnd(text, i) + MinOf(BuyerGaps(text, i)))
        ELSE IF Cardinality(all_gstins) >= 2
             THEN at(MinOf(all_gstins \ {MinOf(all_gstins)}))
        ELSE IF Cardinality(all_gstins) = 1 THEN at(MinOf(all_gstins))
        ELSE None

(***************************************************************************)
(* v2.py: the invoice-number and date recognizers                          *)
(***************************************************************************)
\* the class [A-Z0-9\-/] under re.IGNORECASE
TokenClass == UpperSet \cup LowerSet \cup Digits \cup {"-", "/"}

\* the alternative of alts (lower case, no two can match at once) that
\* matches at s[j..], or <<>>
AltAt(s, j, alts) ==
    LET hits == {a \in alts : LitAt(s, j, a)}
    IN  IF hits = {} THEN <<>> ELSE CHOOSE a \in hits : TRUE

\* (?:w\s*(?:alts)[\s:]+)([A-Z0-9\-/]+) at s[i..], ignoring case: the group
\* as [at, len], len = 0 when the pattern does not match there.  Both
\* repetitions take their whole run: what follows them is outside their class.
KeyedTokenAt(s, i, w, alts) ==
    LET j == i + Len(w) + RunLen(s, i + Len(w), SpaceClass)
        a == AltAt(s, j, alts)
        e == j + Len(a)
        n == RunLen(s, e, SepClass)
    IN  IF LitAt(s, i, w) /\ a # <<>> /\ n >= 1
        THEN [at |-> e + n, len |-> RunLen(s, e + n, TokenClass)]
        ELSE [at |-> 0, len |-> 0]

\* re.search of one such pattern: group(1) of the leftmost match, or <<>>
SearchKeyedToken(s, w, alts) ==
    LET hits == {i \in 1..Len(s) : s[i] \in {w[1], UpperChar(w[1])} /\ KeyedTokenAt(s, i, w, alts).len > 0}
    IN  IF hits = {} THEN <<>>
        ELSE LET g == KeyedTokenAt(s, MinOf(hits), w, alts)
             IN  SubSeq(s, g.at, g.at + g.len - 1)

\* extract_invoice_number_with_regex(text): the three patterns in order
ExtractInvoiceNumberWithRegex(text) ==
    LET p1 == SearchKeyedToken(text, <<"i", "n", "v", "o", "i", "c", "e">>, {<<"n", "o">>, <<"n", "u", "m", "b", "e", "r">>, <<"#">>})
        p2 == SearchKeyedToken(text, <<"b", "i", "l", "l">>, {<<"n", "o">>, <<"n", "u", "m", "b", "e", "r">>})
        p3 == SearchKeyedToken(text, <<"t", "a", "x">>, {<<"i", "n", "v", "o", "i", "c", "e">>})
    IN  IF p1 # <<>> THEN Str(Strip(p1))
        ELSE IF p2 # <<>> THEN Str(Strip(p2))
        ELSE IF p3 # <<>> THEN Str(Strip(p3))
        ELSE None

DateSeps == {"-", "/"}

\* \d{1,2}[-/]\d{1,2}[-/]\d{2,4} at s[g..]: the length of the match, or 0.
\* bounded: the pattern ends with \b.  A day or month run must be 1 or 2
\* digits long, a separator follows it; the year takes up to 4 digits, and
\* under \b the run must end there.
DateLenAt(s, g, bounded) ==
    LET d == RunLen(s, g, Digits)
        ms == g + d + 1
        mo == RunLen(s, ms, Digits)
        ys == ms + mo + 1
        y == RunLen(s, ys, Digits)
    IN  IF /\ d \in {1, 2}
           /\ g + d <= Len(s)
           /\ s[g + d] \in DateSeps
           /\ mo \in {1, 2}
           /\ ms + mo <= Len(s)
           /\ s[ms + mo] \in DateSeps
           /\ y >= 2
           /\ bounded => (y <= 4 /\ BoundaryBefore(s, ys + y))
        THEN d + 1 + mo + 1 + Min2(y, 4)
        ELSE 0

\* (?:Date[\s:]+)(date) at s[i..], case-sensitive: the group as [at, len]
DateAfterKeywordAt(s, i) ==
    LET e == i + 4
        n == RunLen(s, e, SepClass)
    IN  IF StartsAt(s, <<"D", "a", "t", "e">>, i) /\ n >= 1
        THEN [at |-> e + n, len |-> DateLenAt(s, e + n, FALSE)]
        ELSE [at |-> 0, len |-> 0]

\* (?:Invoice\s*Date[\s:]+)(date) at s[i..], case-sensitive
DateAfterInvoiceDateAt(s, i) ==
    IF StartsAt(s, <<"I", "n", "v", "o", "i", "c", "e">>, i)
    THEN DateAfterKeywordAt(s, i + 7 + RunLen(s, i + 7, SpaceClass))
    ELSE [at |-> 0, len |-> 0]

\* extract_date_with_regex(text): the three patterns in order
ExtractDateWithRegex(text) ==
    LET h1 == {i \in 1..Len(text) : text[i] = "D" /\ DateAfterKeywordAt(text, i).len > 0}
        h2 == {i \in 1..Len(text) : text[i] = "I" /\ DateAfterInvoiceDateAt(text, i).len > 0}
        h3 == {i \in 1..Len(text) :
                  /\ text[i] \in Digits
                  /\ BoundaryBefore(text, i)
                  /\ DateLenAt(text, i, TRUE) > 0}
        grp(g) == Str(SubSeq(text, g.at, g.at + g.len - 1))
    IN  IF h1 # {} THEN grp(DateAfterKeywordAt(text, MinOf(h1)))
        ELSE IF h2 # {} THEN grp(DateAfterInvoiceDateAt(text, MinOf(h2)))
        ELSE IF h3 # {} THEN Str(SubSeq(text, MinOf(h3), MinOf(h3) + DateLenAt(text, MinOf(h3), TRUE) - 1))
        ELSE None

(***************************************************************************)
(* v2.py: safe_json_extract and extract_invoice_data_llama                 *)
(***************************************************************************)
FIELDS ==
    <<"Invoice_no", "Date", "Buyer_Name", "Buyer_GSTIN", "Buyer_State",
      "Taxable_Value", "CGST", "SGST", "IGST", "Total_Value">>

\* The model's reply is a sequence of segments: prose without braces, or the
\* text of one JSON object (held as the dict it encodes).
Prose == [seg |-> "prose"]

Obj(d) == [seg |-> "object", d |-> d]

\* a Python dict as a value; NoDict stands for None
Dict(d) == [t |-> "dict", d |-> d]

NoDict == [t |-> "none"]

\* safe_json_extract: r"\{.*\}" under re.DOTALL spans from the first "{"
\* to the last "}", and json.loads takes the span only if it is one object
SafeJsonExtract(content) ==
    LET objs == {i \in 1..Len(content) : content[i].seg = "object"}
    IN  IF objs = {} THEN NoDict
        ELSE IF Cardinality(objs) = 1 THEN Dict(content[MinOf(objs)].d)
        ELSE NoDict

\* "if data": None and the empty dict are falsy
DictTruthy(r) == r.t = "dict" /\ DOMAIN r.d # {}

\* not data.get("Buyer_GSTIN") or len(str(data.get("Buyer_GSTIN", ""))) != 15
\* (the values drawn here are strings or None)
NeedsBuyerGstin(d) ==
    LET v == Get(d, "Buyer_GSTIN")
    IN  ~Truthy(v) \/ (IsStr(v) /\ Len(v.s) # 15)

\* data[key] = found, when the recognizer found something
FillFrom(d, key, found) == IF Truthy(found) THEN SetKey(d, key, found) ELSE d

\* the fallback for Buyer_GSTIN
FillBuyerGstin(d, text) ==
    IF NeedsBuyerGstin(d)
    THEN FillFrom(d, "Buyer_GSTIN", ExtractBuyerGstinWithRegex(text))
    ELSE d

\* the fallback for Invoice_no
FillInvoiceNo(d, text) ==
    IF ~Truthy(Get(d, "Invoice_no"))
    THEN FillFrom(d, "Invoice_no", ExtractInvoiceNumberWithRegex(text))
    ELSE d

\* the fallback for Date
FillDate(d, text) ==
    IF ~Truthy(Get(d, "Date"))
    THEN FillFrom(d, "Date", ExtractDateWithRegex(text))
    ELSE d

\* the three regex fallbacks, in order
RegexFallbacks(d, text) == FillDate(FillInvoiceNo(FillBuyerGstin(d, text), text), text)

\* extract_invoice_data_llama(text), given what the model call does: it raises
\* or answers reply.content.  Every exception inside the try, the ValueError of
\* validate_and_fix_taxes included, ends in "return None".
ExtractInvoiceDataLlama(text, reply) ==
    IF reply.raises THEN NoDict
    ELSE LET parsed == SafeJsonExtract(reply.content)
         IN  IF ~DictTruthy(parsed) THEN parsed
             ELSE LET r == ValidateAndFixTaxes(parsed.d)
                  IN  IF r.raised THEN NoDict
                      ELSE Dict(RegexFallbacks(r.data, text))

(***************************************************************************)
(* v2.py: main                                                             *)
(***************************************************************************)
\* len(text.strip()) < 20
MIN_TEXT == 20

\* text[:15000]
MAX_TEXT == 15000

\* the 1.0 of diff > 1.0
TOLERANCE == {0}

\* float() has 53 significant bits (sys.float_info.mant_dig)
MANT_DIG == 53

\* A Python float (IEEE 754 binary64) that is not negative is held as the set
\* of the positions of its one bits: the bit at position p weighs 2^p.
RECURSIVE Pow2(_)
Pow2(n) == IF n = 0 THEN 1 ELSE 2 * Pow2(n - 1)

BitOf(S, p) == IF p \in S THEN 1 ELSE 0

\* a + b, exactly
BitSum(a, b) ==
    IF a = {} THEN b
    ELSE IF b = {} THEN a
    ELSE LET lo == MinOf(a \cup b)
             hi == MaxOf(a \cup b) + 1
             carry[p \in lo..hi] ==
                 IF p = lo THEN 0
                 ELSE (BitOf(a, p - 1) + BitOf(b, p - 1) + carry[p - 1]) \div 2
         IN  {p \in lo..hi : (BitOf(a, p) + BitOf(b, p) + carry[p]) % 2 = 1}

\* a < b
BitLess(a, b) == a # b /\ MaxOf((a \ b) \cup (b \ a)) \in b

\* a - b, exactly, for a >= b
BitDiff(a, b) ==
    IF b = {} THEN a
    ELSE LET lo == MinOf(a \cup b)
             hi == MaxOf(a \cup b)
             borrow[p \in lo..hi] ==
                 IF p = lo THEN 0
                 ELSE IF BitOf(a, p - 1) - BitOf(b, p - 1) - borrow[p - 1] < 0 THEN 1 ELSE 0
         IN  {p \in lo..hi : (2 + BitOf(a, p) - BitOf(b, p) - borrow[p]) % 2 = 1}

\* round to nearest, ties to even, at MANT_DIG significant bits; inexact
\* says that the number has further one bits below those of S
RoundBits(S, inexact) ==
    IF S = {} THEN {}
    ELSE LET last == MaxOf(S) - (MANT_DIG - 1)
             kept == {p \in S : p >= last}
             half == (last - 1) \in S
             below == inexact \/ \E p \in S : p < last - 1
         IN  IF half /\ (below \/ last \in S) THEN BitSum(kept, {last}) ELSE kept

\* float("w.dd"), for an amount of h hundredths that is not negative: the
\* binary expansion of h/100 by long division, correctly rounded
FloatOfHundredths(h) ==
    IF h = 0 THEN {}
    ELSE LET depth == MANT_DIG + 7
             rem[k \in 0..depth] == IF k = 0 THEN h % 100 ELSE (2 * rem[k - 1]) % 100
             wholeBits == {p \in 0..30 : ((h \div 100) \div Pow2(p)) % 2 = 1}
             fracBits == {0 - k : k \in {j \in 1..depth : 2 * rem[j - 1] >= 100}}
         IN  RoundBits(wholeBits \cup fracBits, rem[depth] # 0)

\* a + b on floats
FloatAdd(a, b) == RoundBits(BitSum(a, b), FALSE)

\* abs(a - b) on floats
FloatAbsDiff(a, b) ==
    IF BitLess(a, b) THEN RoundBits(BitDiff(b, a), FALSE) ELSE RoundBits(BitDiff(a, b), FALSE)

\* the decimal that to_float hands to float(), in hundredths: 0 for None and
\* for whatever float() rejects (the amounts drawn are not negative)
AmountRead(v) ==
    CASE v.t = "none" -> 0
      [] v.t = "num" -> v.n
      [] v.t = "str" ->
            LET f == ParseFloat(FilterChars(v.s, {Rupee, ",", "$"}))
            IN  IF f.ok THEN f.val ELSE 0

\* to_float(val)
ToFloat(v) == FloatOfHundredths(AmountRead(v))

\* abs(expected_total - total_f), where
\* expected_total = taxable_f + cgst_f + sgst_f + igst_f is added left to right
MathDiff(d) ==
    FloatAbsDiff(FloatAdd(FloatAdd(FloatAdd(ToFloat(Get(d, "Taxable_Value")),
                                            ToFloat(Get(d, "CGST"))),
                                   ToFloat(Get(d, "SGST"))),
                          ToFloat(Get(d, "IGST"))),
                 ToFloat(Get(d, "Total_Value")))

\* the "Math doesn't add up" branch: diff > 1.0
MathWarning(d) == BitLess(TOLERANCE, MathDiff(d))

\* the tax type main prints
TaxType(d) ==
    IF Truthy(Get(d, "CGST")) \/ Truthy(Get(d, "SGST")) THEN "CGST/SGST"
    ELSE IF Truthy(Get(d, "IGST")) THEN "IGST"
    ELSE "none"

\* the name of the i-th file of the listing
FileName(i) == [t |-> "file", i |-> i]

\* csv.DictWriter(fieldnames = ["File_Name"] + FIELDS)
CsvFields == {"File_Name"} \cup {FIELDS[i] : i \in 1..Len(FIELDS)}

\* the cells of one row: a missing key and None are both written empty
CsvRow(r) == [k \in CsvFields |-> Get(r, k)]

\* writerows raises ValueError at the first row with a key outside fieldnames;
\* the rows before it have been written
CsvPrefix(rs) ==
    LET bad == {i \in 1..Len(rs) : ~(DOMAIN rs[i] \subseteq CsvFields)}
        n == IF bad = {} THEN Len(rs) ELSE MinOf(bad) - 1
    IN  [raised |-> bad # {}, written |-> [i \in 1..n |-> CsvRow(rs[i])]]

(***************************************************************************)
(* The tax-ID recognizers on their own: a text and one call of each        *)
(***************************************************************************)
\* how many pieces a text handed to the recognizers has
MaxTextPieces == 3

\* a run of n spaces
Spaces(n) == [i \in 1..n |-> " "]

\* the pieces; with the joining spaces the two runs of spaces put 500 and
\* 501 characters between their neighbours
RegexVocab ==
    << <<"B", "i", "l", "l", " ", "T", "o">>, <<"G", "S", "T", " ", "N", "o", ":">>, <<"2", "7", "A", "A", "P", "F", "U", "0", "9", "3", "9", "F", "1", "Z", "V">>, <<"2", "9", "A", "B", "C", "D", "E", "1", "2", "3", "4", "F", "1", "Z", "5">>,
       <<"0", "7", "a", "a", "a", "a", "a", "0", "0", "0", "0", "a", "1", "z", "5">>, <<"1", "2", "A", "B", "C", "D", "E", "1", "2", "3", "4", "5", "6", "7", "8">>, Spaces(BUYER_WINDOW - 2),
       Spaces(BUYER_WINDOW - 1) >>

\* the texts: up to MaxTextPieces pieces joined by single spaces
RegexTexts ==
    {Join([i \in 1..Len(f) |-> RegexVocab[f[i]]], <<" ">>) :
        f \in UNION {[1..k -> 1..Len(RegexVocab)] : k \in 0..MaxTextPieces}}

InitRegex ==
    /\ regexText \in RegexTexts
    /\ gstinOut = None
    /\ gstinDone = FALSE
    /\ buyerOut = None
    /\ buyerDone = FALSE
    /\ TaxIdle
    /\ LocIdle
    /\ TextIdle
    /\ NormIdle
    /\ MainIdle
    /\ FolderIdle
    /\ LogicIdle
    /\ BoxIdle
    /\ ExportIdle
    /\ GuiIdle

\* one call extract_gstin_with_regex(text)
ExtractGstin ==
    /\ ~gstinDone
    /\ gstinOut' = ExtractGstinWithRegex(regexText)
    /\ gstinDone' = TRUE
    /\ UNCHANGED <<regexText, buyerOut, buyerDone, taxVars, locVars, textVars, normVars, mainVars, folderVars, logicVars, boxVars, exportVars, guiVars>>

\* one call extract_buyer_gstin_with_regex(text)
ExtractBuyerGstin ==
    /\ ~buyerDone
    /\ buyerOut' = ExtractBuyerGstinWithRegex(regexText)
    /\ buyerDone' = TRUE
    /\ UNCHANGED <<regexText, gstinOut, gstinDone, taxVars, locVars, textVars, normVars, mainVars, folderVars, logicVars, boxVars, exportVars, guiVars>>

NextRegex == ExtractGstin \/ ExtractBuyerGstin

SpecRegex == InitRegex /\ [][NextRegex]_vars

(***************************************************************************)
(* v2.main on a folder of documents                                        *)
(***************************************************************************)
\* how many supported files the folder holds
MaxFiles == 2

\* texts the text extraction hands back: all three fallback fields present,
\* none of them present, and a nearly blank page
TextWithIds == <<"I", "n", "v", "o", "i", "c", "e", " ", "N", "o", ":", " ", "I", "N", "V", "-", "0", "0", "1", " ", "D", "a", "t", "e", ":", " ", "0", "1", "/", "0", "2", "/", "2", "0", "2", "4", " ", "B", "i", "l", "l", " ", "T", "o", " ", "2", "7", "A", "A", "P", "F", "U", "0", "9", "3", "9", "F", "1", "Z", "V">>

TextWithoutIds == <<"T", "h", "a", "n", "k", " ", "y", "o", "u", " ", "f", "o", "r", " ", "y", "o", "u", "r", " ", "b", "u", "s", "i", "n", "e", "s", "s", " ", "w", "i", "t", "h", " ", "u", "s">>

TextBlank == <<" ", " ", "P", "A", "G", "E", " ", "1", " ", " ">>

\* a JSON object whose amounts add up: 1000 + 50 + 50 = 1100
BaseObject ==
    [Invoice_no |-> Str(<<"I", "N", "V", "-", "9">>),
     Date |-> Str(<<"0", "1", "/", "0", "2", "/", "2", "0", "2", "4">>),
     Buyer_Name |-> Str(<<"A", "c", "m", "e">>),
     Buyer_GSTIN |-> Str(<<"2", "9", "A", "B", "C", "D", "E", "1", "2", "3", "4", "F", "1", "Z", "5">>),
     Buyer_State |-> Str(<<"K", "A">>),
     Taxable_Value |-> Str(<<"Rs", " ", "1", ",", "0", "0", "0">>),
     CGST |-> Str(<<"5", "0">>),
     SGST |-> Str(<<"5", "0">>),
     IGST |-> Str(<<"n", "u", "l", "l">>),
     Total_Value |-> Str(<<"1", ",", "1", "0", "0">>)]

\* the objects the model answers with: totals 0, 100, 1 and 1.5 away from the
\* sum; one with 0.10 + 0.20 + 50.05 against 51.35; one without invoice number, date and a usable tax ID; one on which
\* validate_and_fix_taxes raises; one with a key that is not a CSV column
MainObjects ==
    { BaseObject,
      [BaseObject EXCEPT !.Total_Value = Str(<<"1", ",", "2", "0", "0">>)],
      [BaseObject EXCEPT !.Total_Value = Str(<<"1", ",", "1", "0", "1">>)],
      [BaseObject EXCEPT !.Total_Value = Str(<<"1", ",", "1", "0", "1", ".", "5">>)],
      [BaseObject EXCEPT !.Taxable_Value = Str(<<"0", ".", "1", "0">>),
                         !.CGST = Str(<<"0", ".", "2", "0">>),
                         !.SGST = Str(<<"5", "0", ".", "0", "5">>),
                         !.Total_Value = Str(<<"5", "1", ".", "3", "5">>)],
      [Invoice_no |-> None,
       Buyer_GSTIN |-> Str(<<"1", "2", "3">>),
       Taxable_Value |-> Num(100000),
       IGST |-> Str(<<"1", "8", "0">>),
       Total_Value |-> Num(118000)],
      [BaseObject EXCEPT !.CGST = Str(<<"a", "b", "c">>), !.IGST = Str(<<"1", "0", "0">>)],
      SetKey(BaseObject, "Notes", Str(<<"p", "a", "i", "d">>)) }

\* what the model call does: it raises, answers prose only, answers one
\* object inside prose, two objects, or the empty object
MainReplies ==
    { [raises |-> TRUE, content |-> << >>],
      [raises |-> FALSE, content |-> <<Prose>>],
      [raises |-> FALSE, content |-> <<Obj(BaseObject), Prose, Obj(BaseObject)>>],
      [raises |-> FALSE, content |-> <<Obj(<< >>)>>] }
    \cup {[raises |-> FALSE, content |-> <<Prose, Obj(o), Prose>>] : o \in MainObjects}

\* a document: whether reading it raises, the text read, the model's reply
MainDocs ==
    {[unreadable |-> FALSE, text |-> t, reply |-> r] :
        t \in {TextWithIds, TextWithoutIds}, r \in MainReplies}
    \cup {[unreadable |-> FALSE, text |-> TextBlank, reply |-> [raises |-> TRUE, content |-> << >>]],
          [unreadable |-> TRUE, text |-> << >>, reply |-> [raises |-> TRUE, content |-> << >>]]}

InitMain ==
    /\ folderExists \in BOOLEAN
    /\ supported_files \in UNION {[1..k -> MainDocs] : k \in 0..MaxFiles}
    /\ ~folderExists => supported_files = << >>
    /\ mainIdx = 0
    /\ rows = << >>
    /\ mainLog = << >>
    /\ mainCsv = << >>
    /\ mainPc = "loop"
    /\ TaxIdle
    /\ LocIdle
    /\ TextIdle
    /\ NormIdle
    /\ RegexIdle
    /\ FolderIdle
    /\ LogicIdle
    /\ BoxIdle
    /\ ExportIdle
    /\ GuiIdle

\* one entry of what main prints about a document
LogEntry(i, event, warning, taxType) ==
    [file |-> i, event |-> event, warning |-> warning, taxType |-> taxType]

\* the document the loop is at
CurrentDoc == supported_files[mainIdx + 1]

InLoop == mainPc = "loop" /\ folderExists /\ mainIdx < Len(supported_files)

\* not text or len(text.strip()) < 20
TooLittleText(text) == text = << >> \/ Len(Strip(text)) < MIN_TEXT

\* text[:15000] when the text is longer
Truncated(text) == IF Len(text) > MAX_TEXT THEN SubSeq(text, 1, MAX_TEXT) ELSE text

\* what extract_invoice_data_llama returns for the current document
CurrentData == ExtractInvoiceDataLlama(Truncated(CurrentDoc.text), CurrentDoc.reply)

\* "Folder not found": main returns
MainNoFolder ==
    /\ mainPc = "loop"
    /\ ~folderExists
    /\ mainPc' = "returned"
    /\ UNCHANGED <<folderExists, supported_files, mainIdx, rows, mainLog, mainCsv,
                   taxVars, locVars, textVars, normVars, regexVars, folderVars, logicVars, boxVars, exportVars, guiVars>>

\* "No supported files found": main returns
MainNoFiles ==
    /\ mainPc = "loop"
    /\ folderExists
    /\ supported_files = << >>
    /\ mainPc' = "returned"
    /\ UNCHANGED <<folderExists, supported_files, mainIdx, rows, mainLog, mainCsv,
                   taxVars, locVars, textVars, normVars, regexVars, folderVars, logicVars, boxVars, exportVars, guiVars>>

\* extract_text_from_pdf raises (pdfplumber cannot read the file): nothing in
\* main catches it
MainTextRaises ==
    /\ InLoop
    /\ CurrentDoc.unreadable
    /\ mainPc' = "raised"
    /\ UNCHANGED <<folderExists, supported_files, mainIdx, rows, mainLog, mainCsv,
                   taxVars, locVars, textVars, normVars, regexVars, folderVars, logicVars, boxVars, exportVars, guiVars>>

\* "Very little text extracted": continue
MainSkipBlank ==
    /\ InLoop
    /\ ~CurrentDoc.unreadable
    /\ TooLittleText(CurrentDoc.text)
    /\ mainLog' = Append(mainLog, LogEntry(mainIdx + 1, "blank", FALSE, "none"))
    /\ mainIdx' = mainIdx + 1
    /\ UNCHANGED <<folderExists, supported_files, rows, mainCsv, mainPc,
                   taxVars, locVars, textVars, normVars, regexVars, folderVars, logicVars, boxVars, exportVars, guiVars>>

\* extract_invoice_data_llama returned None or {}: "Extraction failed"
MainExtractFailed ==
    /\ InLoop
    /\ ~CurrentDoc.unreadable
    /\ ~TooLittleText(CurrentDoc.text)
    /\ ~DictTruthy(CurrentData)
    /\ mainLog' = Append(mainLog, LogEntry(mainIdx + 1, "failed", FALSE, "none"))
    /\ mainIdx' = mainIdx + 1
    /\ UNCHANGED <<folderExists, supported_files, rows, mainCsv, mainPc,
                   taxVars, locVars, textVars, normVars, regexVars, folderVars, logicVars, boxVars, exportVars, guiVars>>

\* the record is appended to rows, then checked and reported
MainExtracted ==
    /\ InLoop
    /\ ~CurrentDoc.unreadable
    /\ ~TooLittleText(CurrentDoc.text)
    /\ \E r \in {CurrentData} :
          /\ DictTruthy(r)
          /\ \E d \in {SetKey(r.d, "File_Name", FileName(mainIdx + 1))} :
                /\ rows' = Append(rows, d)
                /\ mainLog' = Append(mainLog, LogEntry(mainIdx + 1, "extracted", MathWarning(d), TaxType(d)))
    /\ mainIdx' = mainIdx + 1
    /\ UNCHANGED <<folderExists, supported_files, mainCsv, mainPc,
                   taxVars, locVars, textVars, normVars, regexVars, folderVars, logicVars, boxVars, exportVars, guiVars>>

LoopDone ==
    /\ mainPc = "loop"
    /\ folderExists
    /\ supported_files # << >>
    /\ mainIdx = Len(supported_files)

\* the rows are written to OUTPUT_CSV
MainSave ==
    /\ LoopDone
    /\ rows # << >>
    /\ ~CsvPrefix(rows).raised
    /\ mainCsv' = CsvPrefix(rows).written
    /\ mainPc' = "returned"
    /\ UNCHANGED <<folderExists, supported_files, mainIdx, rows, mainLog,
                   taxVars, locVars, textVars, normVars, regexVars, folderVars, logicVars, boxVars, exportVars, guiVars>>

\* writerows raises ValueError on a row with a key that is not a column
MainSaveRaises ==
    /\ LoopDone
    /\ rows # << >>
    /\ CsvPrefix(rows).raised
    /\ mainCsv' = CsvPrefix(rows).written
    /\ mainPc' = "raised"
    /\ UNCHANGED <<folderExists, supported_files, mainIdx, rows, mainLog,
                   taxVars, locVars, textVars, normVars, regexVars, folderVars, logicVars, boxVars, exportVars, guiVars>>

\* "No data extracted from any file"
MainNothingToSave ==
    /\ LoopDone
    /\ rows = << >>
    /\ mainPc' = "returned"
    /\ UNCHANGED <<folderExists, supported_files, mainIdx, rows, mainLog, mainCsv,
                   taxVars, locVars, textVars, normVars, regexVars, folderVars, logicVars, boxVars, exportVars, guiVars>>

NextMain ==
    \/ MainNoFolder
    \/ MainNoFiles
    \/ MainTextRaises
    \/ MainSkipBlank
    \/ MainExtractFailed
    \/ MainExtracted
    \/ MainSave
    \/ MainSaveRaises
    \/ MainNothingToSave

SpecMain == InitMain /\ [][NextMain]_vars

(***************************************************************************)
(* extract_invoice.py: detect_pdf_type and text_based_pdf on a document    *)
(***************************************************************************)
\* A document is [opens, pages]: whether pdfplumber.open accepts the file, and
\* the words of each of its pages.  A page without words has no text.

\* detect_pdf_type(pdf_path): "text_pdf" as soon as some page has text
DetectPdfType(doc) ==
    IF ~doc.opens THEN [raised |-> TRUE, type |-> "none"]
    ELSE [raised |-> FALSE,
          type |-> IF \E p \in 1..Len(doc.pages) : doc.pages[p] # << >>
                   THEN "text_pdf"
                   ELSE "scanned_pdf"]

\* what extract_value returns for each entry of LABELS on pdf.pages[0]
FirstPageValues(doc, checks) ==
    [i \in 1..Len(LabelKeys) |-> ExtractValue(PageSize, doc.pages[1], LabelTexts[i], checks)]

\* text_based_pdf(file) raises: the file does not open, pdf.pages[0] does not
\* exist, or page.crop raises for one of the labels
TextBasedPdfRaises(doc, checks) ==
    \/ ~doc.opens
    \/ doc.pages = << >>
    \/ \E i \in 1..Len(LabelKeys) : FirstPageValues(doc, checks)[i].raised

\* the labels the invoice_no loop of normalize_bill_data can break at
InvoiceNoCuts(doc, checks) == CutChoices(FirstPageValues(doc, checks)[1].value)

\* the dict text_based_pdf returns when that loop breaks at cut
TextBasedPdf(doc, checks, cut) ==
    [k \in {LabelKeys[i] : i \in 1..Len(LabelKeys)} |->
        LET i == CHOOSE j \in 1..Len(LabelKeys) : LabelKeys[j] = k
        IN  NormalizeField(LabelTexts[i], FirstPageValues(doc, checks)[i].value,
                           IF LabelTexts[i] = <<"I", "n", "v", "o", "i", "c", "e", " ", "N", "o">> THEN cut ELSE << >>)]

(***************************************************************************)
(* process_invoice_folder on a folder of documents                         *)
(***************************************************************************)
\* most documents in a folder
MaxDocs == 3

\* first pages: an invoice number; "CGST" at the right page edge with an
\* amount below it, whose crop box leaves the page; a total
PageInvoice == PageWords({1, 2, 5})

PageEdge == PageWords({6, 9})

PageTotal == PageWords({7, 10, 11})

\* the documents of a folder: one that does not open, one with an invoice
\* number, one on which page.crop raises where it is validated, a scanned one,
\* one whose first page is blank and whose second page has text
BatchDocs ==
    { [opens |-> FALSE, pages |-> << >>],
      [opens |-> TRUE, pages |-> <<PageInvoice>>],
      [opens |-> TRUE, pages |-> <<PageEdge>>],
      [opens |-> TRUE, pages |-> << << >> >>],
      [opens |-> TRUE, pages |-> << << >>, PageTotal >>] }

Folders == UNION {[1..k -> BatchDocs] : k \in 0..MaxDocs}

InitFolder ==
    /\ pdf_files \in Folders
    /\ folderChecks \in BOOLEAN
    /\ folderIdx = 0
    /\ folderRows = << >>
    /\ folderLog = << >>
    /\ folderCsv = << >>
    /\ folderPc = "loop"
    /\ TaxIdle
    /\ LocIdle
    /\ TextIdle
    /\ NormIdle
    /\ RegexIdle
    /\ MainIdle
    /\ LogicIdle
    /\ BoxIdle
    /\ ExportIdle
    /\ GuiIdle

FolderInLoop == folderPc = "loop" /\ folderIdx < Len(pdf_files)

\* the document the loop is at
FolderDoc == pdf_files[folderIdx + 1]

\* detect_pdf_type raises: nothing in process_invoice_folder catches it
FolderDetectRaises ==
    /\ FolderInLoop
    /\ DetectPdfType(FolderDoc).raised
    /\ folderPc' = "raised"
    /\ UNCHANGED <<pdf_files, folderChecks, folderIdx, folderRows, folderLog, folderCsv,
                   taxVars, locVars, textVars, normVars, regexVars, mainVars, logicVars, boxVars, exportVars, guiVars>>

\* "Skipping scanned PDF": continue
FolderSkipScanned ==
    /\ FolderInLoop
    /\ ~DetectPdfType(FolderDoc).raised
    /\ DetectPdfType(FolderDoc).type # "text_pdf"
    /\ folderLog' = Append(folderLog, folderIdx + 1)
    /\ folderIdx' = folderIdx + 1
    /\ UNCHANGED <<pdf_files, folderChecks, folderRows, folderCsv, folderPc,
                   taxVars, locVars, textVars, normVars, regexVars, mainVars, logicVars, boxVars, exportVars, guiVars>>

\* text_based_pdf raises: nothing in process_invoice_folder catches it
FolderExtractRaises ==
    /\ FolderInLoop
    /\ ~DetectPdfType(FolderDoc).raised
    /\ DetectPdfType(FolderDoc).type = "text_pdf"
    /\ TextBasedPdfRaises(FolderDoc, folderChecks)
    /\ folderPc' = "raised"
    /\ UNCHANGED <<pdf_files, folderChecks, folderIdx, folderRows, folderLog, folderCsv,
                   taxVars, locVars, textVars, normVars, regexVars, mainVars, logicVars, boxVars, exportVars, guiVars>>

\* the row of a text document is appended to rows
FolderExtracted ==
    /\ FolderInLoop
    /\ ~DetectPdfType(FolderDoc).raised
    /\ DetectPdfType(FolderDoc).type = "text_pdf"
    /\ ~TextBasedPdfRaises(FolderDoc, folderChecks)
    /\ \E cut \in InvoiceNoCuts(FolderDoc, folderChecks) :
          folderRows' = Append(folderRows,
                               SetKey(TextBasedPdf(FolderDoc, folderChecks, cut),
                                      "File_Name", FileName(folderIdx + 1)))
    /\ folderIdx' = folderIdx + 1
    /\ UNCHANGED <<pdf_files, folderChecks, folderLog, folderCsv, folderPc,
                   taxVars, locVars, textVars, normVars, regexVars, mainVars, logicVars, boxVars, exportVars, guiVars>>

\* "No data extracted.": return
FolderNoData ==
    /\ folderPc = "loop"
    /\ folderIdx = Len(pdf_files)
    /\ folderRows = << >>
    /\ folderPc' = "returned"
    /\ UNCHANGED <<pdf_files, folderChecks, folderIdx, folderRows, folderLog, folderCsv,
                   taxVars, locVars, textVars, normVars, regexVars, mainVars, logicVars, boxVars, exportVars, guiVars>>

\* write_to_csv(rows, output_csv): every key of a row is a column
FolderWrite ==
    /\ folderPc = "loop"
    /\ folderIdx = Len(pdf_files)
    /\ folderRows # << >>
    /\ folderCsv' = folderRows
    /\ folderPc' = "returned"
    /\ UNCHANGED <<pdf_files, folderChecks, folderIdx, folderRows, folderLog,
                   taxVars, locVars, textVars, normVars, regexVars, mainVars, logicVars, boxVars, exportVars, guiVars>>

NextFolder ==
    \/ FolderDetectRaises
    \/ FolderSkipScanned
    \/ FolderExtractRaises
    \/ FolderExtracted
    \/ FolderNoData
    \/ FolderWrite

SpecFolder == InitFolder /\ [][NextFolder]_vars

(***************************************************************************)
(* logic.py: InvoiceExtractorLogic.process_invoices                        *)
(***************************************************************************)
InitLogic ==
    /\ folder_exists \in BOOLEAN
    /\ logicFiles \in Folders
    /\ ~folder_exists => logicFiles = << >>
    /\ logicChecks \in BOOLEAN
    /\ log_callback \in BOOLEAN
    /\ logicIdx = 0
    /\ extracted_data = << >>
    /\ processed_count = 0
    /\ skipped_count = 0
    /\ logicLog = << >>
    /\ logicPc = "start"
    /\ TaxIdle
    /\ LocIdle
    /\ TextIdle
    /\ NormIdle
    /\ RegexIdle
    /\ MainIdle
    /\ FolderIdle
    /\ BoxIdle
    /\ ExportIdle
    /\ GuiIdle

\* fieldnames = ["File_Name"] + list(extract_invoice.LABELS.keys())
ExportFieldnames == <<"File_Name">> \o LabelKeys

\* the cells DictWriter writes for one record: the value of each fieldname in
\* order, empty for a key the record does not have
ExportCells(r) ==
    [j \in 1..Len(ExportFieldnames) |->
        IF ExportFieldnames[j] \in DOMAIN r THEN r[ExportFieldnames[j]] ELSE <<>>]

\* export_to_csv(output_path) on self.extracted_data = records, where old is
\* what output_path held: nothing is opened without records; writerows raises
\* ValueError at the first record with a key outside fieldnames, after the
\* header and the records before it have been written
ExportToCsv(records, old) ==
    IF records = <<>> THEN [result |-> "no data", file |-> old]
    ELSE LET bad == {i \in 1..Len(records) :
                        \E k \in DOMAIN records[i] :
                            \A j \in 1..Len(ExportFieldnames) : ExportFieldnames[j] # k}
             n == IF bad = {} THEN Len(records) ELSE MinOf(bad) - 1
         IN  [result |-> IF bad = {} THEN "exported" ELSE "error",
              file |-> [header |-> ExportFieldnames,
                        lines |-> [i \in 1..n |-> ExportCells(records[i])]]]

\* a message about the i-th document (0: about the whole run)
LogMessage(i, event) == [file |-> i, event |-> event]

\* "if log_callback: log_callback(...)"
Logged(entry) == IF log_callback THEN Append(logicLog, entry) ELSE logicLog

\* "Error: Folder does not exist": return []
LogicNoFolder ==
    /\ logicPc = "start"
    /\ ~folder_exists
    /\ logicLog' = Logged(LogMessage(0, "no folder"))
    /\ logicPc' = "returned"
    /\ UNCHANGED <<folder_exists, logicFiles, logicChecks, log_callback, logicIdx,
                   extracted_data, processed_count, skipped_count,
                   taxVars, locVars, textVars, normVars, regexVars, mainVars, folderVars, boxVars, exportVars, guiVars>>

\* mutant: an empty folder is reported like a finished run
LogicNoFiles_ReportsComplete ==
    /\ logicPc = "start"
    /\ folder_exists
    /\ logicFiles = << >>
    /\ logicLog' = Logged(LogMessage(0, "complete"))
    /\ logicPc' = "returned"
    /\ UNCHANGED <<folder_exists, logicFiles, logicChecks, log_callback, logicIdx,
                   extracted_data, processed_count, skipped_count,
                   taxVars, locVars, textVars, normVars, regexVars, mainVars, folderVars, boxVars, exportVars, guiVars>>

\* "No PDF files found in selected folder.": return []
LogicNoFiles ==
    /\ logicPc = "start"
    /\ folder_exists
    /\ logicFiles = << >>
    /\ logicLog' = Logged(LogMessage(0, "no files"))
    /\ logicPc' = "returned"
    /\ UNCHANGED <<folder_exists, logicFiles, logicChecks, log_callback, logicIdx,
                   extracted_data, processed_count, skipped_count,
                   taxVars, locVars, textVars, normVars, regexVars, mainVars, folderVars, boxVars, exportVars, guiVars>>

\* "Found n PDF file(s)"; processed_count = 0; skipped_count = 0
LogicStart ==
    /\ logicPc = "start"
    /\ folder_exists
    /\ logicFiles # << >>
    /\ logicLog' = Logged(LogMessage(0, "found"))
    /\ logicPc' = "loop"
    /\ UNCHANGED <<folder_exists, logicFiles, logicChecks, log_callback, logicIdx,
                   extracted_data, processed_count, skipped_count,
                   taxVars, locVars, textVars, normVars, regexVars, mainVars, folderVars, boxVars, exportVars, guiVars>>

LogicInLoop == logicPc = "loop" /\ logicIdx < Len(logicFiles)

\* the document the loop is at
LogicDoc == logicFiles[logicIdx + 1]

\* "Skipping scanned PDF": skipped_count += 1; continue
LogicSkipScanned ==
    /\ LogicInLoop
    /\ ~DetectPdfType(LogicDoc).raised
    /\ DetectPdfType(LogicDoc).type # "text_pdf"
    /\ logicLog' = Logged(LogMessage(logicIdx + 1, "scanned"))
    /\ skipped_count' = skipped_count + 1
    /\ logicIdx' = logicIdx + 1
    /\ UNCHANGED <<folder_exists, logicFiles, logicChecks, log_callback,
                   extracted_data, processed_count, logicPc,
                   taxVars, locVars, textVars, normVars, regexVars, mainVars, folderVars, boxVars, exportVars, guiVars>>

\* mutant: the record is appended without its File_Name
LogicProcessed_NoFileName ==
    /\ LogicInLoop
    /\ ~DetectPdfType(LogicDoc).raised
    /\ DetectPdfType(LogicDoc).type = "text_pdf"
    /\ ~TextBasedPdfRaises(LogicDoc, logicChecks)
    /\ \E cut \in InvoiceNoCuts(LogicDoc, logicChecks) :
          extracted_data' = Append(extracted_data, TextBasedPdf(LogicDoc, logicChecks, cut))
    /\ processed_count' = processed_count + 1
    /\ logicLog' = Logged(LogMessage(logicIdx + 1, "processed"))
    /\ logicIdx' = logicIdx + 1
    /\ UNCHANGED <<folder_exists, logicFiles, logicChecks, log_callback,
                   skipped_count, logicPc,
                   taxVars, locVars, textVars, normVars, regexVars, mainVars, folderVars, boxVars, exportVars, guiVars>>

\* the row of a text document is appended; "Processed"
LogicProcessed ==
    /\ LogicInLoop
    /\ ~DetectPdfType(LogicDoc).raised
    /\ DetectPdfType(LogicDoc).type = "text_pdf"
    /\ ~TextBasedPdfRaises(LogicDoc, logicChecks)
    /\ \E cut \in InvoiceNoCuts(LogicDoc, logicChecks) :
          extracted_data' = Append(extracted_data,
                                   SetKey(TextBasedPdf(LogicDoc, logicChecks, cut),
                                          "File_Name", FileName(logicIdx + 1)))
    /\ processed_count' = processed_count + 1
    /\ logicLog' = Logged(LogMessage(logicIdx + 1, "processed"))
    /\ logicIdx' = logicIdx + 1
    /\ UNCHANGED <<folder_exists, logicFiles, logicChecks, log_callback,
                   skipped_count, logicPc,
                   taxVars, locVars, textVars, normVars, regexVars, mainVars, folderVars, boxVars, exportVars, guiVars>>

\* mutant: a document that raised is logged but not counted
LogicRaised_NotCounted ==
    /\ LogicInLoop
    /\ \/ DetectPdfType(LogicDoc).raised
       \/ /\ DetectPdfType(LogicDoc).type = "text_pdf"
          /\ TextBasedPdfRaises(LogicDoc, logicChecks)
    /\ logicLog' = Logged(LogMessage(logicIdx + 1, "error"))
    /\ logicIdx' = logicIdx + 1
    /\ UNCHANGED <<folder_exists, logicFiles, logicChecks, log_callback,
                   extracted_data, processed_count, skipped_count, logicPc,
                   taxVars, locVars, textVars, normVars, regexVars, mainVars, folderVars, boxVars, exportVars, guiVars>>

\* except Exception: detect_pdf_type or text_based_pdf raised; "Error
\* processing"; skipped_count += 1
LogicRaised ==
    /\ LogicInLoop
    /\ \/ DetectPdfType(LogicDoc).raised
       \/ /\ DetectPdfType(LogicDoc).type = "text_pdf"
          /\ TextBasedPdfRaises(LogicDoc, logicChecks)
    /\ logicLog' = Logged(LogMessage(logicIdx + 1, "error"))
    /\ skipped_count' = skipped_count + 1
    /\ logicIdx' = logicIdx + 1
    /\ UNCHANGED <<folder_exists, logicFiles, logicChecks, log_callback,
                   extracted_data, processed_count, logicPc,
                   taxVars, locVars, textVars, normVars, regexVars, mainVars, folderVars, boxVars, exportVars, guiVars>>

\* "Processing complete": return self.extracted_data
LogicReturn ==
    /\ logicPc = "loop"
    /\ logicIdx = Len(logicFiles)
    /\ logicLog' = Logged(LogMessage(0, "complete"))
    /\ logicPc' = "returned"
    /\ UNCHANGED <<folder_exists, logicFiles, logicChecks, log_callback, logicIdx,
                   extracted_data, processed_count, skipped_count,
                   taxVars, locVars, textVars, normVars, regexVars, mainVars, folderVars, boxVars, exportVars, guiVars>>

\* export_to_csv(output_path) once process_invoices has returned
LogicExport ==
    /\ logicPc = "returned"
    /\ exportResult = "none"
    /\ LET e == ExportToCsv(extracted_data, csvFile)
       IN  /\ exportResult' = e.result
           /\ csvFile' = e.file
    /\ UNCHANGED <<logicVars, taxVars, locVars, textVars, normVars, regexVars, mainVars, folderVars, boxVars, guiVars>>

NextLogic ==
    \/ LogicNoFolder
    \/ LogicNoFiles
    \/ LogicStart
    \/ LogicSkipScanned
    \/ LogicProcessed
    \/ LogicRaised
    \/ LogicReturn
    \/ LogicExport

SpecLogic == InitLogic /\ [][NextLogic]_vars

(***************************************************************************)
(* main.py / ui.py: the GUI around InvoiceExtractorLogic.  The UI thread  *)
(* runs one handler at a time; a ProcessingThread runs process_invoices    *)
(* and reports to the UI thread through queued signals.                    *)
(***************************************************************************)
\* most lines the log area holds before the user stops exporting
MaxLogLines == 7

\* self.selected_folder = "" / self.current_folder = ""
NoFolder == <<>>

\* What the worker finds at a selected path when it gets there: the folder
\* has been removed, cannot be listed, or holds these PDF documents.
GuiFolders ==
    { [exists |-> FALSE, listable |-> FALSE, files |-> << >>],
      [exists |-> TRUE, listable |-> FALSE, files |-> << >>],
      [exists |-> TRUE, listable |-> TRUE, files |-> << >>],
      [exists |-> TRUE, listable |-> TRUE,
       files |-> << [opens |-> TRUE, pages |-> << << >> >>], [opens |-> FALSE, pages |-> << >>] >>],
      [exists |-> TRUE, listable |-> TRUE, files |-> << [opens |-> TRUE, pages |-> <<PageInvoice>>] >>],
      [exists |-> TRUE, listable |-> TRUE,
       files |-> << [opens |-> TRUE, pages |-> << << >>, PageTotal >>], [opens |-> FALSE, pages |-> << >>] >>] }

\* a line added to the log area by a handler of the UI thread
UiLine(event) == [file |-> 0, event |-> event]

\* the table before populate_table has been called
EmptyTable == [headers |-> << >>, cells |-> << >>]

\* self.table.rowCount()
RowCount == Len(table.cells)

\* list(data[0].keys()): the keys of LABELS in insertion order, File_Name last
KeysInOrder(r) ==
    LET all == LabelKeys \o <<"File_Name">>
    IN  FilterSeq(all, DOMAIN r)

\* populate_table(data) for a non-empty data: the headers are the keys of the
\* first record, a cell is str(row_data.get(header, ""))
PopulateTable(records) ==
    LET headers == KeysInOrder(records[1])
    IN  [headers |-> headers,
         cells |-> [i \in 1..Len(records) |->
                      [j \in 1..Len(headers) |->
                          IF headers[j] \in DOMAIN records[i]
                          THEN records[i][headers[j]] ELSE <<>>]]]

\* mutant: the Process button keeps its state while processing
SetProcessingState_ProcessStaysEnabled(is_processing) ==
    [select |-> ~is_processing,
     process |-> selected_folder # NoFolder,
     export |-> ~is_processing /\ RowCount > 0]

\* set_processing_state(is_processing): the enabled flags of the buttons
SetProcessingState(is_processing) ==
    [select |-> ~is_processing,
     process |-> ~is_processing /\ selected_folder # NoFolder,
     export |-> ~is_processing /\ RowCount > 0]

\* the branch on_processing_complete takes on the list it is handed
HandlerBranch(records) == IF records # << >> THEN "extracted" ELSE "nothing extracted"

\* what process_invoices returns
ReturnValue ==
    IF ~folder_exists \/ logicFiles = << >> THEN << >> ELSE extracted_data

InitGui ==
    /\ selected_folder = NoFolder
    /\ current_folder = NoFolder
    /\ select_btn = TRUE
    /\ process_btn = FALSE
    /\ export_btn = FALSE
    /\ table = EmptyTable
    /\ log_text = << >>
    /\ importable \in BOOLEAN
    /\ threads = 0
    /\ signals = << >>
    /\ logSeen = 0
    /\ guiShown = "none"
    /\ folder_exists = FALSE
    /\ logicFiles = << >>
    /\ logicChecks = TRUE
    /\ log_callback = TRUE
    /\ logicIdx = 0
    /\ extracted_data = << >>
    /\ processed_count = 0
    /\ skipped_count = 0
    /\ logicLog = << >>
    /\ logicPc = "idle"
    /\ TaxIdle
    /\ LocIdle
    /\ TextIdle
    /\ NormIdle
    /\ RegexIdle
    /\ MainIdle
    /\ FolderIdle
    /\ BoxIdle
    /\ ExportIdle

\* "Select Folder" clicked: on_select_folder, and on_folder_selected when the
\* dialog is not cancelled
GuiSelectFolder ==
    /\ select_btn
    /\ \E folder \in GuiFolders \cup {NoFolder} :
          IF folder # NoFolder
          THEN /\ selected_folder' = folder
               /\ process_btn' = TRUE
               /\ current_folder' = folder
               /\ log_text' = <<UiLine("folder selected")>>
          ELSE UNCHANGED <<selected_folder, process_btn, current_folder, log_text>>
    /\ UNCHANGED <<select_btn, export_btn, table, importable, threads, signals, logSeen,
                   guiShown, logicVars, exportVars, taxVars, locVars, textVars, normVars, regexVars, mainVars, folderVars, boxVars>>

\* "Process" clicked: on_process_clicked starts a ProcessingThread
GuiProcessClicked ==
    /\ process_btn
    /\ log_text' = <<UiLine("starting")>>
    /\ LET s == SetProcessingState(TRUE)
       IN  /\ select_btn' = s.select
           /\ process_btn' = s.process
           /\ export_btn' = s.export
    /\ threads' = threads + 1
    /\ logicPc' = "called"
    /\ logicLog' = << >>
    /\ logSeen' = 0
    /\ UNCHANGED <<selected_folder, current_folder, table, importable, signals, guiShown,
                   folder_exists, logicFiles, logicChecks, log_callback, logicIdx,
                   extracted_data, processed_count, skipped_count, exportVars, taxVars, locVars, textVars, normVars, regexVars, mainVars, folderVars, boxVars>>

\* the thread enters process_invoices: the import, self.extracted_data = [],
\* os.path.exists and os.listdir succeed
GuiWorkerEnter ==
    /\ logicPc = "called"
    /\ importable
    /\ current_folder # NoFolder
    /\ current_folder.exists => current_folder.listable
    /\ extracted_data' = << >>
    /\ folder_exists' = current_folder.exists
    /\ logicFiles' = current_folder.files
    /\ logicIdx' = 0
    /\ processed_count' = 0
    /\ skipped_count' = 0
    /\ logicPc' = "start"
    /\ UNCHANGED <<logicChecks, log_callback, logicLog, guiVars, exportVars, taxVars, locVars, textVars, normVars, regexVars, mainVars, folderVars, boxVars>>

\* process_invoices raises outside its try block: the import fails, or
\* os.listdir raises after self.extracted_data = [].  run() has no handler,
\* so the thread ends without emitting processing_complete.
GuiWorkerRaises ==
    /\ logicPc = "called"
    /\ \/ /\ ~importable
          /\ UNCHANGED extracted_data
       \/ /\ importable
          /\ current_folder # NoFolder
          /\ current_folder.exists /\ ~current_folder.listable
          /\ extracted_data' = << >>
    /\ logicPc' = "raised"
    /\ threads' = threads - 1
    /\ UNCHANGED <<folder_exists, logicFiles, logicChecks, log_callback, logicIdx,
                   processed_count, skipped_count, logicLog,
                   selected_folder, current_folder, select_btn, process_btn, export_btn,
                   table, log_text, importable, signals, logSeen, guiShown, exportVars, taxVars, locVars, textVars, normVars, regexVars, mainVars, folderVars, boxVars>>

\* process_invoices has returned: self.processing_complete.emit(data)
GuiEmitComplete ==
    /\ logicPc = "returned"
    /\ threads > 0
    /\ signals' = Append(signals, ReturnValue)
    /\ threads' = threads - 1
    /\ logicPc' = "idle"
    /\ UNCHANGED <<folder_exists, logicFiles, logicChecks, log_callback, logicIdx,
                   extracted_data, processed_count, skipped_count, logicLog,
                   selected_folder, current_folder, select_btn, process_btn, export_btn,
                   table, log_text, importable, logSeen, guiShown, exportVars, taxVars, locVars, textVars, normVars, regexVars, mainVars, folderVars, boxVars>>

\* a queued log_message signal reaches ui.add_log
GuiLogDelivered ==
    /\ logSeen < Len(logicLog)
    /\ log_text' = Append(log_text, logicLog[logSeen + 1])
    /\ logSeen' = logSeen + 1
    /\ UNCHANGED <<selected_folder, current_folder, select_btn, process_btn, export_btn,
                   table, importable, threads, signals, guiShown, logicVars, exportVars, taxVars, locVars, textVars, normVars, regexVars, mainVars, folderVars, boxVars>>

\* the queued processing_complete signal reaches on_processing_complete, after
\* the log_message signals emitted before it
GuiProcessingComplete ==
    /\ signals # << >>
    /\ logSeen = Len(logicLog)
    /\ LET records == Head(signals)
           s == SetProcessingState(FALSE)
       IN  /\ select_btn' = s.select
           /\ process_btn' = s.process
           /\ IF records # << >>
              THEN /\ table' = PopulateTable(records)
                   /\ export_btn' = TRUE
              ELSE /\ table' = table
                   /\ export_btn' = s.export
           /\ guiShown' = HandlerBranch(records)
           /\ log_text' = Append(log_text, UiLine(HandlerBranch(records)))
    /\ signals' = Tail(signals)
    /\ UNCHANGED <<selected_folder, current_folder, importable, threads, logSeen,
                   logicVars, exportVars, taxVars, locVars, textVars, normVars, regexVars, mainVars, folderVars, boxVars>>

\* "Export" clicked: on_export_clicked; nothing happens when the file dialog
\* is cancelled
GuiExportClicked ==
    /\ export_btn
    /\ Len(log_text) < MaxLogLines
    /\ \E chosen \in BOOLEAN :
          IF chosen
          THEN LET e == ExportToCsv(extracted_data, csvFile)
               IN  /\ exportResult' = e.result
                   /\ csvFile' = e.file
                   /\ log_text' = Append(log_text, UiLine(e.result))
          ELSE UNCHANGED <<exportVars, log_text>>
    /\ UNCHANGED <<selected_folder, current_folder, select_btn, process_btn, export_btn,
                   table, importable, threads, signals, logSeen, guiShown, logicVars, taxVars, locVars, textVars, normVars, regexVars, mainVars, folderVars, boxVars>>

\* the steps of the UI thread
GuiUiStep ==
    \/ GuiSelectFolder
    \/ GuiProcessClicked
    \/ GuiLogDelivered
    \/ GuiProcessingComplete
    \/ GuiExportClicked

\* the steps of the ProcessingThread
GuiWorkerStep ==
    \/ GuiWorkerEnter
    \/ GuiWorkerRaises
    \/ LogicNoFolder
    \/ LogicNoFiles
    \/ LogicStart
    \/ LogicSkipScanned
    \/ LogicProcessed
    \/ LogicRaised
    \/ LogicReturn
    \/ GuiEmitComplete

NextGui == GuiUiStep \/ GuiWorkerStep

SpecGui == InitGui /\ [][NextGui]_vars

\* the steps of the ProcessingThread outside the loop over the documents
GuiWorkerControl ==
    \/ GuiWorkerEnter
    \/ GuiWorkerRaises
    \/ LogicNoFolder
    \/ LogicNoFiles
    \/ LogicStart
    \/ LogicReturn
    \/ GuiEmitComplete

\* one iteration of the loop over the documents, whichever way it ends
GuiLoopAdvance == LogicInLoop /\ logicIdx' = logicIdx + 1

\* the thread is scheduled until it ends, every iteration of its loop ends,
\* and the event loop of the UI thread delivers every queued signal; the
\* user is free not to click
SpecGuiLive ==
    /\ SpecGui
    /\ WF_vars(GuiWorkerControl)
    /\ WF_logicIdx(GuiLoopAdvance)
    /\ WF_vars(GuiLogDelivered)
    /\ WF_vars(GuiProcessingComplete)

(***************************************************************************)
(* Claims about the tax reconciler (checked under SpecTax)                 *)
(***************************************************************************)
\* the latest call of validate_and_fix_taxes returned a record
TaxReturned == taxCalls >= 1 /\ ~taxRaised

\* a value the null normalization is about: a string whose lowercased form is
\* "null", "none", "n/a" or empty
IsNullLike(v) == IsStr(v) /\ Lower(v.s) \in NullWords

\* a character that is neither a currency marker, a thousands separator nor
\* whitespace
IsAmountChar(c) == c \notin {Rupee, "$", ","} /\ ~IsSpace(c)

\* C1: the record returned by validate_and_fix_taxes never has IGST non-null
\* while CGST or SGST is non-null.
C1_NeverBothSchemes ==
    TaxReturned =>
        ~(/\ Get(data, "IGST") # None
          /\ (Get(data, "CGST") # None \/ Get(data, "SGST") # None))

\* the numeric projection of a tax value, 0 for a null or empty one
TaxNumeric(v) == FloatOrZero(NormalizeTaxValue(v)).val

\* "present": the value parses to a number greater than 0
TaxPresent(v) == IsValidAmount(NormalizeTaxValue(v))

C3_OriginalStringKept ==
    TaxReturned =>
        \A k \in TaxKeys :
            LET v == Get(dataPrev, k)
            IN  (IsStr(v) /\ ~IsNullLike(v) /\ Get(data, k) # None) => Get(data, k) = v

\* C3 (amended): every CGST/SGST/IGST string that is not null-like and is not
\* nulled by the exclusivity rule is stored as the original string with its
\* currency markers, thousands separators and whitespace removed.
C3_StrippedStringKept ==
    TaxReturned =>
        \A k \in TaxKeys :
            LET v == Get(dataPrev, k)
            IN  (IsStr(v) /\ ~IsNullLike(v) /\ Get(data, k) # None)
                    => Get(data, k) = Str(SelectSeq(v.s, IsAmountChar))

\* C3 witness: a decorated amount went in and its bare digits came out
C3_Witness ==
    /\ taxCalls = 1 /\ ~taxRaised
    /\ Get(dataPrev, "CGST") = Str(<<Rupee, " ", "1", ",", "0", "5", "0", ".", "5">>)
    /\ Get(data, "CGST") = Str(<<"1", "0", "5", "0", ".", "5">>)

\* C4: validate_and_fix_taxes is idempotent: a second call on the record the
\* first call returned changes nothing.
C4_Idempotent == (taxCalls >= 2 /\ ~taxRaised) => data = dataPrev

\* C5 (as stated): no field other than CGST, SGST and IGST changes and the set
\* of keys of the record is unchanged.
C5_FrameAndKeys ==
    TaxReturned =>
        /\ DOMAIN data = DOMAIN dataPrev
        /\ \A k \in (DOMAIN dataPrev) \ TaxKeys : data[k] = dataPrev[k]

\* C5 (amended): no field other than CGST, SGST and IGST changes, no key is
\* removed, and the only keys the call can add are CGST and SGST, with the
\* value null.
C5_FrameKeysMayGrow ==
    taxCalls >= 1 =>
        /\ DOMAIN dataPrev \subseteq DOMAIN data
        /\ (DOMAIN data) \ (DOMAIN dataPrev) \subseteq {"CGST", "SGST"}
        /\ \A k \in (DOMAIN data) \ (DOMAIN dataPrev) : data[k] = None
        /\ \A k \in (DOMAIN dataPrev) \ TaxKeys : data[k] = dataPrev[k]

\* C5 witness: the rule ran on a record without a CGST key and left the
\* non-tax fields as they were
C5_Witness ==
    /\ taxCalls = 1 /\ ~taxRaised
    /\ "CGST" \notin DOMAIN dataPrev
    /\ "CGST" \in DOMAIN data
    /\ data["Taxable_Value"] = Str(<<Rupee, " ", "1", ",", "0", "0", "0">>)
    /\ data["Total_Value"] = Str(<<"1", ",", "2", "0", "0">>)

ClusterKeys == {"Taxable_Value", "CGST", "SGST", "IGST", "Total_Value"}

\* C6 (as stated): every value of Taxable_Value, CGST, SGST, IGST, Total_Value
\* whose lowercased form is "null", "none", "n/a" or empty is null in the
\* returned record.
C6_NullNormalizesCluster ==
    TaxReturned =>
        \A k \in ClusterKeys : IsNullLike(Get(dataPrev, k)) => Get(data, k) = None

\* C6 (amended): every value of CGST, SGST, IGST whose lowercased form is
\* "null", "none", "n/a" or empty is null in the returned record.
C6_NullNormalizesTaxKeys ==
    TaxReturned =>
        \A k \in TaxKeys : IsNullLike(Get(dataPrev, k)) => Get(data, k) = None

\* C6 witness: "N/A" went in as SGST and null came out, next to a kept amount
C6_Witness ==
    /\ taxCalls = 1 /\ ~taxRaised
    /\ Get(dataPrev, "SGST") = Str(<<"N", "/", "A">>)
    /\ Get(data, "SGST") = None
    /\ Get(data, "CGST") = Str(<<"5", "0">>)


(***************************************************************************)
(* Claims about the label locator (checked under SpecLocate)               *)
(***************************************************************************)
\* the start indices at which the token texts equal the label's words
LabelStarts ==
    LET lw == Split(locLabel)
    IN  {i \in 1..Len(words) :
            /\ i + Len(lw) - 1 <= Len(words)
            /\ \A j \in 1..Len(lw) : words[i + j - 1].text = lw[j]}

\* C7: find_label returns the run tokens[i..i+k) for the smallest index i at
\* which the k token texts equal the label's words, and returns NOT_FOUND only
\* if no such index exists, also when the only match ends at the last token.
C7_FirstMatchOrNotFound ==
    locDone =>
        IF LabelStarts = {}
        THEN ~locResult.found
        ELSE LET i == CHOOSE h \in LabelStarts : \A g \in LabelStarts : h <= g
             IN  /\ locResult.found
                 /\ locResult.run = SubSeq(words, i, i + Len(Split(locLabel)) - 1)


(***************************************************************************)
(* Claims about the value resolver (checked under SpecText)                *)
(***************************************************************************)
\* extract_value has returned for the latest LABELS entry
Resolved == idx >= 1 /\ textPc # "raised"

\* the label of the entry extract_value was last called for
LatestLabel == IF textPc = "raised" THEN LabelTexts[idx + 1] ELSE LabelTexts[idx]

\* the token run find_label returned for that label
LatestRun == FindLabel(words, LatestLabel)

Last(s) == s[Len(s)]

\* C8: when find_label does not locate the label, extract_value returns the
\* empty string without running any strategy (no column scan, no page.crop),
\* and text_based_pdf goes on with the remaining fields: the step stores the
\* empty value under that key, no exception ends the loop, and every later
\* step keeps the keys and values stored before it.
C8_NotFoundShortCircuits ==
    [][ /\ (textPc = "loop" /\ ~FindLabel(words, LabelTexts[idx + 1]).found)
            => /\ idx' = idx + 1
               /\ textPc' = (IF idx' = Len(LabelKeys) THEN "returned" ELSE "loop")
               /\ raw' = <<>>
               /\ calls' = <<>>
               /\ LabelKeys[idx'] \in DOMAIN row'
               /\ row'[LabelKeys[idx']] = <<>>
        /\ \A k \in DOMAIN row : k \in DOMAIN row' /\ row'[k] = row[k] ]_vars

\* C8 witness: text_based_pdf returned a record in which "Invoice No" was not
\* located and is empty while Total was resolved
C8_Witness ==
    /\ textPc = "returned"
    /\ ~FindLabel(words, <<"I", "n", "v", "o", "i", "c", "e", " ", "N", "o">>).found
    /\ row["Invoice_No"] = <<>>
    /\ row["Total"] = <<Rupee, " ", "4", "5", "0">>

\* C9: for a field in COLUMN_TABLE_FIELDS a non-empty column-below value is
\* the value returned, also when the right-of-label capture would be
\* accepted; for a field not in COLUMN_TABLE_FIELDS the column-below strategy
\* is never evaluated.
C9_ColumnBeforeRight ==
    ((idx >= 1 \/ textPc = "raised") /\ LatestRun.found) =>
        IF LatestLabel \in COLUMN_TABLE_FIELDS
        THEN ColumnBelow(words, LatestRun.run) # <<>>
                => (Resolved /\ raw = ColumnBelow(words, LatestRun.run))
        ELSE \A i \in 1..Len(calls) : calls[i] # "column"

\* C9 witness: Total has "450" in its column and "99" to its right, and the
\* column value was returned
C9_Witness ==
    /\ Resolved
    /\ LatestLabel = <<"T", "o", "t", "a", "l">>
    /\ LatestRun.found
    /\ raw = <<"4", "5", "0">>
    /\ ExtractRightOfLabel(page, words, LatestRun.run, cropChecks).text = <<"9", "9">>

\* C10: a right-of-label capture is returned only if it is non-empty, its
\* lowercase form is not a configured label and it contains a digit, whatever
\* the field; a non-empty capture without a digit is rejected and the result
\* is then the below-label capture (empty when that is empty).
C10_RightOfLabelGuard ==
    (Resolved /\ LatestRun.found /\ calls # <<>>) =>
        LET right == ExtractRightOfLabel(page, words, LatestRun.run, cropChecks).text
            below == ExtractBelowLabel(page, words, LatestRun.run, cropChecks).text
        IN  /\ Last(calls) = "right" =>
                /\ raw = right
                /\ right # <<>>
                /\ Lower(right) \notin ALL_LABELS
                /\ \E i \in 1..Len(right) : right[i] \in Digits
            /\ (/\ \E i \in 1..Len(calls) : calls[i] = "right"
                /\ right # <<>>
                /\ \A i \in 1..Len(right) : right[i] \notin Digits)
                  => (Last(calls) = "below" /\ raw = below)

\* C10 witness: for the column field Total the capture "Paid" right of the
\* label was rejected and the below-label capture "7" returned
C10_Witness ==
    /\ Resolved
    /\ LatestLabel = <<"T", "o", "t", "a", "l">>
    /\ LatestRun.found
    /\ calls = <<"column", "right", "below">>
    /\ ExtractRightOfLabel(page, words, LatestRun.run, cropChecks).text = <<"P", "a", "i", "d">>
    /\ raw = <<"7">>


(***************************************************************************)
(* Claims about normalize_bill_data (checked under SpecNorm)               *)
(***************************************************************************)
\* at least one normalize_bill_data(value, mode) call has returned
NormReturned(mode) == normMode = mode /\ normCalls >= 1

\* the positions of the value at which some configured label starts,
\* compared case-insensitively
LabelPositions(value) ==
    {i \in 1..Len(value) : \E l \in ALL_LABELS : StartsAt(Lower(value), l, i)}

\* the value truncated at the earliest position at which a label occurs
CutAtEarliestLabel(value) ==
    IF LabelPositions(value) = {} THEN value
    ELSE SubSeq(value, 1, MinOf(LabelPositions(value)) - 1)

\* the value truncated at the first occurrence of the label cut
CutAtLabel(value, cut) ==
    IF cut = <<>> THEN value ELSE SubSeq(value, 1, Find(Lower(value), cut) - 1)

\* s[i..j] is a token of its own: no word character touches it on either side
Delimited(s, i, j) ==
    /\ i = 1 \/ ~IsWordChar(s[i - 1])
    /\ j = Len(s) \/ ~IsWordChar(s[j + 1])

AllDigits(s, i, j) == \A k \in i..j : s[k] \in Digits

\* the tokens "PP" + 6 or more digits of s, in either case, as <<first, last>>
PPTokens(s) ==
    {p \in (1..Len(s)) \X (1..Len(s)) :
        /\ s[p[1]] \in {"P", "p"}
        /\ p[2] >= p[1] + 7
        /\ s[p[1] + 1] \in {"P", "p"}
        /\ AllDigits(s, p[1] + 2, p[2])
        /\ Delimited(s, p[1], p[2])}

\* the bare runs of 6 or more digits of s, as <<first, last>>
DigitTokens(s) ==
    {p \in (1..Len(s)) \X (1..Len(s)) :
        /\ s[p[1]] \in Digits
        /\ p[2] >= p[1] + 5
        /\ AllDigits(s, p[1], p[2])
        /\ Delimited(s, p[1], p[2])}

\* the token of toks that starts first
FirstToken(s, toks) ==
    LET p == CHOOSE q \in toks : \A o \in toks : q[1] <= o[1]
    IN  SubSeq(s, p[1], p[2])

\* what the invoice number of a truncated, trimmed value v is to be
ExpectedInvoiceNo(v) ==
    IF PPTokens(v) # {} THEN Upper(FirstToken(v, PPTokens(v)))
    ELSE IF DigitTokens(v) # {} THEN <<"P", "P">> \o FirstToken(v, DigitTokens(v))
    ELSE v

\* C11: invoice-number normalization truncates the value at the earliest
\* position at which any configured label occurs, whatever the order in which
\* the label set is enumerated, and normalizes what is left of it
C11_CutAtEarliestLabel ==
    NormReturned("invoice_no") =>
        normValue = ExpectedInvoiceNo(Strip(CutAtEarliestLabel(normPrev)))

\* C12: after truncation, invoice-number normalization returns the first
\* PP + 6-or-more-digits token uppercased, else "PP" + the first bare run of 6
\* or more digits, else the truncated, trimmed value unchanged
C12_PPThenDigitsThenUnchanged ==
    NormReturned("invoice_no") =>
        normValue = ExpectedInvoiceNo(Strip(CutAtLabel(normPrev, normCut)))

\* a bare digit run comes before the PP token, and the PP token is returned
C12_Witness ==
    /\ normMode = "invoice_no"
    /\ normCalls = 1
    /\ normIn = <<"1", "2", "3", "4", "5", "6", "7", " ", "p", "p", "1", "2", "3", "4", "5", "6">>
    /\ normValue = <<"P", "P", "1", "2", "3", "4", "5", "6">>

HasRupee(value) == \E i \in 1..Len(value) : value[i] = Rupee

\* C13: money-total normalization prepends the rupee sign and a space to a
\* value with a digit and no rupee sign, returns any other value unchanged,
\* and a second call changes nothing
C13_TotalIdempotent ==
    NormReturned("total") =>
        /\ normValue = IF HasDigit(normPrev) /\ ~HasRupee(normPrev)
                       THEN <<Rupee, " ">> \o normPrev
                       ELSE normPrev
        /\ normCalls >= 2 => normValue = normPrev

\* "450.00" is "Rs 450.00" after one call and after two
C13_Witness ==
    /\ normMode = "total"
    /\ normCalls = 2
    /\ normIn = <<"4", "5", "0", ".", "0", "0">>
    /\ normPrev = <<Rupee, " ">> \o <<"4", "5", "0", ".", "0", "0">>
    /\ normValue = normPrev

(***************************************************************************)
(* Claims about the tax-ID recognizers (checked under SpecRegex)           *)
(***************************************************************************)
\* the 15 characters of s from position p, uppercased
IdAt(s, p) == Str(Upper(SubSeq(s, p, p + 14)))

\* where a tax-ID-grammar match starts in s as a token of its own, its
\* letters in either case
TaxIdStarts(s) ==
    {p \in 1..Len(s) :
        s[p] \in Digits /\ GrammarAt(s, p, TRUE) /\ Delimited(s, p, p + 14)}

\* where a tax-ID-grammar match starts within 500 characters after a
\* counterparty keyword
NearBuyerKeyword(s) ==
    {p \in 1..Len(s) :
        /\ s[p] \in Digits
        /\ GrammarAt(s, p, TRUE)
        /\ \E i \in 1..p :
              /\ s[i] \in {"B", "b", "C", "c", "S", "s"}
              /\ BuyerKeywordEnd(s, i) # 0
              /\ BuyerKeywordEnd(s, i) <= p
              /\ p - BuyerKeywordEnd(s, i) <= 500}

\* the second least element of a set of at least two positions
SecondOf(S) == MinOf(S \ {MinOf(S)})

\* C14: extract_buyer_gstin_with_regex returns a tax-ID-grammar match found
\* within 500 characters after a counterparty keyword if there is one;
\* otherwise the second of all tax-ID-grammar matches of the text, the only
\* one when there is exactly one, and not-found when there is none
C14_NearKeywordElseSecond ==
    buyerDone =>
        LET near == NearBuyerKeyword(regexText)
            all == TaxIdStarts(regexText)
        IN  IF near # {} THEN \E p \in near : buyerOut = IdAt(regexText, p)
            ELSE IF Cardinality(all) >= 2 THEN buyerOut = IdAt(regexText, SecondOf(all))
            ELSE IF Cardinality(all) = 1 THEN buyerOut = IdAt(regexText, MinOf(all))
            ELSE buyerOut = None

\* where a strict-grammar tax ID starts right after a keyword and its
\* separators
AnchoredIds(s) ==
    {AnchoredAt(s, i) : i \in {j \in 1..Len(s) : s[j] \in {"G", "g", "P", "p"} /\ AnchoredAt(s, j) # 0}}

\* where a run of 15 letters and digits that starts with two digits stands
\* as a token of its own
LooseStarts(s) ==
    {p \in 1..Len(s) :
        s[p] \in Digits /\ LooseAt(s, p, TRUE) /\ Delimited(s, p, p + 14)}

\* C15: extract_gstin_with_regex returns a keyword-anchored strict-grammar tax
\* ID if the text has one, else the first bare strict-grammar match, else the
\* first loose 15-character match, else not-found; a result is uppercase
C15_AnchoredThenStrictThenLoose ==
    gstinDone =>
        /\ IF AnchoredIds(regexText) # {}
           THEN gstinOut = IdAt(regexText, MinOf(AnchoredIds(regexText)))
           ELSE IF TaxIdStarts(regexText) # {}
           THEN gstinOut = IdAt(regexText, MinOf(TaxIdStarts(regexText)))
           ELSE IF LooseStarts(regexText) # {}
           THEN gstinOut = IdAt(regexText, MinOf(LooseStarts(regexText)))
           ELSE gstinOut = None
        /\ IsStr(gstinOut) => gstinOut.s = Upper(gstinOut.s)

\* a bare strict-grammar tax ID comes first in the text, and the anchored one
\* after it is returned
C15_Witness ==
    /\ gstinDone
    /\ regexText = <<"2", "9", "A", "B", "C", "D", "E", "1", "2", "3", "4", "F", "1", "Z", "5", " ", "G", "S", "T", " ", "N", "o", ":", " ", "2", "7", "A", "A", "P", "F", "U", "0", "9", "3", "9", "F", "1", "Z", "V">>
    /\ gstinOut = Str(<<"2", "7", "A", "A", "P", "F", "U", "0", "9", "3", "9", "F", "1", "Z", "V">>)

(***************************************************************************)
(* Claims about v2.main (checked under SpecMain)                           *)
(***************************************************************************)
\* the documents the loop has been through
Visited == 1..mainIdx

\* the text handed to extract_invoice_data_llama for the i-th document
TextOf(i) == Truncated(supported_files[i].text)

\* the i-th document reached the model call and the call failed: it raised, or
\* its response holds no parseable JSON object
ModelCallFailed(i) ==
    /\ ~supported_files[i].unreadable
    /\ ~TooLittleText(supported_files[i].text)
    /\ \/ supported_files[i].reply.raises
       \/ SafeJsonExtract(supported_files[i].reply.content) = NoDict

\* a record holding only what the recognizers find in the text
FallbackRecord(i) == SetKey(RegexFallbacks(<< >>, TextOf(i)), "File_Name", FileName(i))

\* C16: a document whose model call failed still has a record in rows, filled
\* by the fallback recognizers and with no other field
C16_FailedCallStillYieldsRecord ==
    \A i \in Visited :
        ModelCallFailed(i) => \E j \in 1..Len(rows) : rows[j] = FallbackRecord(i)

Abs(n) == IF n < 0 THEN 0 - n ELSE n

\* taxable + CGST + SGST + IGST against the total, in exact hundredths
ExactDiff(d) ==
    Abs(AmountRead(Get(d, "Taxable_Value")) + AmountRead(Get(d, "CGST"))
        + AmountRead(Get(d, "SGST")) + AmountRead(Get(d, "IGST"))
        - AmountRead(Get(d, "Total_Value")))

\* the record main appended for the i-th document
RecordOf(i) ==
    SetKey(ExtractInvoiceDataLlama(TextOf(i), supported_files[i].reply).d,
           "File_Name", FileName(i))

\* C20: a reported record carries the warning exactly when its amounts differ
\* from its total by more than one currency unit, and it is in rows as it was
\* extracted
C20_WarningIffOffByMoreThanOne ==
    \A k \in 1..Len(mainLog) :
        mainLog[k].event = "extracted" =>
            \E d \in {RecordOf(mainLog[k].file)} :
                /\ mainLog[k].warning <=> ExactDiff(d) > 100
                /\ \E j \in 1..Len(rows) : rows[j] = d


(***************************************************************************)
(* Claims about logic.process_invoices (checked under SpecLogic)           *)
(***************************************************************************)
\* detect_pdf_type or text_based_pdf raises on the document
DocRaises(doc, checks) ==
    \/ DetectPdfType(doc).raised
    \/ DetectPdfType(doc).type = "text_pdf" /\ TextBasedPdfRaises(doc, checks)

\* the document is a text document and nothing raises on it
DocYieldsRecord(doc, checks) ==
    ~DocRaises(doc, checks) /\ DetectPdfType(doc).type = "text_pdf"

\* among the documents gone through: those that raised, those with a record
LogicRaising == {i \in 1..logicIdx : DocRaises(logicFiles[i], logicChecks)}

LogicKept == {i \in 1..logicIdx : DocYieldsRecord(logicFiles[i], logicChecks)}

\* extracted_data holds exactly the records of the documents in LogicKept, in
\* listing order
OneRecordEachInOrder ==
    /\ Len(extracted_data) = Cardinality(LogicKept)
    /\ \A i \in LogicKept :
          \E cut \in InvoiceNoCuts(logicFiles[i], logicChecks) :
              extracted_data[Cardinality({j \in LogicKept : j <= i})]
                  = SetKey(TextBasedPdf(logicFiles[i], logicChecks, cut),
                           "File_Name", FileName(i))

\* every document that raised is counted as skipped, and the two counters
\* add up to the number of documents gone through
CountsAddUp ==
    /\ processed_count = Cardinality(LogicKept)
    /\ skipped_count = logicIdx - Cardinality(LogicKept)
    /\ processed_count + skipped_count = logicIdx
    /\ logicPc = "returned" /\ folder_exists => logicIdx = Len(logicFiles)

\* every document that raised has its error message in the log
RaisingLogged ==
    \A i \in LogicRaising :
        \E k \in 1..Len(logicLog) : logicLog[k] = LogMessage(i, "error")

FolderOver == folderPc \in {"returned", "raised"}

\* C18: when the run is over, every document that raises has been reported as
\* skipped and every other text document has its record in the CSV
C18_RaisingDocumentSkipped ==
    FolderOver =>
        \A i \in 1..Len(pdf_files) :
            /\ DocRaises(pdf_files[i], folderChecks) =>
                  \E k \in 1..Len(folderLog) : folderLog[k] = i
            /\ DocYieldsRecord(pdf_files[i], folderChecks) =>
                  \E j \in 1..Len(folderCsv) : folderCsv[j].File_Name = FileName(i)

\* usable text is extractable from the first page
FirstPageHasText(doc) == doc.pages # << >> /\ doc.pages[1] # << >>

\* C19: a document gone through was taken as scanned exactly when its first
\* page has no text, and every row comes from a first page with text
C19_TextIffFirstPageHasText ==
    /\ \A i \in 1..folderIdx :
          (\E k \in 1..Len(folderLog) : folderLog[k] = i) <=> ~FirstPageHasText(pdf_files[i])
    /\ \A j \in 1..Len(folderRows) :
          \E i \in 1..folderIdx :
              folderRows[j].File_Name = FileName(i) /\ FirstPageHasText(pdf_files[i])

(***************************************************************************)
(* Unparsable tax amounts (checked under SpecTax)                          *)
(***************************************************************************)
\* CGST, SGST and IGST of the record are each null or a string
TaxFieldsNullOrStr(d) ==
    \A k \in {"CGST", "SGST", "IGST"} :
        k \in DOMAIN d /\ (d[k] = None \/ IsStr(d[k]))

\* C25: validate_and_fix_taxes returns a record without raising for every
\* input in which CGST, SGST and IGST are each null or an arbitrary string,
\* in particular when one of CGST/SGST is a valid positive amount, the other
\* an unparsable string and IGST a valid positive amount
C25_ReturnsForEveryStringInput ==
    (taxCalls = 1 /\ TaxFieldsNullOrStr(dataIn)) => ~taxRaised

(***************************************************************************)
(* Determinism of the invoice-number normalization (checked under SpecNorm)*)
(***************************************************************************)
\* C27: normalize_bill_data in invoice_no mode is deterministic: the result
\* of a call is the result for every order in which ALL_LABELS can be
\* enumerated, that is for every label of the value the loop can break at
C27_SameResultForEveryLabelOrder ==
    (normCalls = 1 /\ normMode = "invoice_no")
        => \A c \in CutChoices(normIn) :
              NormalizeBillData(normIn, "invoice_no", c) = normValue

(***************************************************************************)
(* The crop boxes of extract_right_of_label and extract_below_label on    *)
(* their own: a located label run and the two boxes built from it          *)
(***************************************************************************)
\* page.extract_words() puts words whose tops are this close on one line
Y_TOLERANCE == 3

\* the bounding boxes a label token can have on a page of PageSize: at the
\* left or towards the right edge, on the first line, a little lower or taller,
\* or on the last line
BoxTokens ==
    {Token(<<"B", "i", "l", "l">>, g[1], g[2], v[1], v[2]) :
        g \in {<<10, 40>>, <<100, 130>>, <<260, 290>>, <<260, 297>>},
        v \in {<<10, 20>>, <<12, 20>>, <<10, 24>>, <<30, 40>>, <<185, 197>>}}

\* b can follow a in the reading order of extract_words: right of a on its
\* line, or on a later line
ReadingOrder(a, b) ==
    \/ /\ a.top - b.top <= Y_TOLERANCE /\ b.top - a.top <= Y_TOLERANCE
       /\ a.x1 <= b.x0
    \/ b.top > a.top + Y_TOLERANCE

\* the label runs find_label can return: one token, or two in reading order
BoxRuns ==
    {<<a>> : a \in BoxTokens}
    \cup {r \in {<<a, b>> : a \in BoxTokens, b \in BoxTokens} : ReadingOrder(r[1], r[2])}

InitBox ==
    /\ boxRun \in BoxRuns
    /\ boxPage = PageSize
    /\ boxRight = <<>>
    /\ boxBelow = <<>>
    /\ TaxIdle
    /\ LocIdle
    /\ TextIdle
    /\ NormIdle
    /\ RegexIdle
    /\ MainIdle
    /\ FolderIdle
    /\ LogicIdle
    /\ ExportIdle
    /\ GuiIdle

\* extract_right_of_label(page, label_words) up to its page.crop(box)
BuildRightBox ==
    /\ boxRight = <<>>
    /\ boxRight' = RightBox(boxPage, boxRun)
    /\ UNCHANGED <<boxRun, boxPage, boxBelow, taxVars, locVars, textVars, normVars, regexVars, mainVars, folderVars, logicVars, exportVars, guiVars>>

\* extract_below_label(page, label_words) up to its page.crop(box)
BuildBelowBox ==
    /\ boxBelow = <<>>
    /\ boxBelow' = BelowBox(boxPage, boxRun)
    /\ UNCHANGED <<boxRun, boxPage, boxRight, taxVars, locVars, textVars, normVars, regexVars, mainVars, folderVars, logicVars, exportVars, guiVars>>

NextBox == BuildRightBox \/ BuildBelowBox

SpecBox == InitBox /\ [][NextBox]_vars

(***************************************************************************)
(* Claims about the crop boxes (checked under SpecBox)                     *)
(***************************************************************************)
RunTokens == {boxRun[i] : i \in 1..Len(boxRun)}

\* every token of the run lies inside the page bounds
RunInsidePage ==
    \A w \in RunTokens :
        /\ 0 <= w.x0 /\ w.x0 <= w.x1 /\ w.x1 <= boxPage.width
        /\ 0 <= w.top /\ w.top <= w.bottom /\ w.bottom <= boxPage.height

\* the tokens of the run with the smallest top
TopmostTokens == {w \in RunTokens : \A u \in RunTokens : w.top <= u.top}

\* C23: the right-of-label rectangle starts 5 units right of the maximum x1
\* over all label tokens, is at most 200 units wide (clamped to the page
\* width) and spans from the minimum top to the maximum bottom over the label
\* tokens
C23_RightBoxSpansWholeLabel ==
    boxRight # <<>> =>
        LET x0 == MaxOf({w.x1 : w \in RunTokens}) + 5
        IN  boxRight = [x0 |-> x0,
                        top |-> MinOf({w.top : w \in RunTokens}),
                        x1 |-> Min2(x0 + 200, boxPage.width),
                        bottom |-> MaxOf({w.bottom : w \in RunTokens})]

\* C24: the below-label rectangle starts 5 units below the bottom edge of the
\* label's topmost token and at the minimum x0 over the label tokens, is at
\* most 200 units wide and 40 units high (clamped to the page)
C24_BelowBoxFromTopmostToken ==
    boxBelow # <<>> =>
        \E w \in TopmostTokens :
            LET x0 == MinOf({u.x0 : u \in RunTokens})
                top == w.bottom + 5
            IN  boxBelow = [x0 |-> x0,
                            top |-> top,
                            x1 |-> Min2(x0 + 200, boxPage.width),
                            bottom |-> Min2(top + 40, boxPage.height)]

\* the rectangle is well-formed and inside the page
WellFormedOn(pg, box) ==
    /\ box.x0 <= box.x1 /\ box.x1 <= pg.width
    /\ box.top <= box.bottom /\ box.bottom <= pg.height

\* C26: for a label run whose tokens lie inside the page bounds, the
\* rectangles handed to page.crop by extract_right_of_label and
\* extract_below_label are well-formed and inside the page
C26_CropBoxesInsidePage ==
    RunInsidePage =>
        /\ boxRight # <<>> => WellFormedOn(boxPage, boxRight)
        /\ boxBelow # <<>> => WellFormedOn(boxPage, boxBelow)

(***************************************************************************)
(* Records and CSV columns of the GUI logic (checked under SpecLogic)      *)
(***************************************************************************)
LabelKeySet == {LabelKeys[i] : i \in 1..Len(LabelKeys)}

\* v is a Python str: a sequence of characters
IsPyStr(v) == DOMAIN v = 1..Len(v) /\ \A i \in 1..Len(v) : v[i] \in STRING

\* the record has the key File_Name and every key of LABELS, nothing else
ExactKeys(r) == DOMAIN r = {"File_Name"} \cup LabelKeySet

\* the values of the LABELS keys are strings, empty for a label find_label
\* does not find among the words of the document's first page
StringValues(r) ==
    \A k \in 1..Len(LabelKeys) :
        /\ IsPyStr(r[LabelKeys[k]])
        /\ ~FindLabel(logicFiles[r.File_Name.i].pages[1], LabelTexts[k]).found
              => r[LabelKeys[k]] = <<>>

\* C22: every record appended to extracted_data has exactly the keys
\* File_Name plus every key of LABELS, each value a string that is empty when
\* the field was not found, and export_to_csv writes the columns File_Name
\* followed by the LABELS keys in configuration order, one line per record
C22_ExactKeysFixedColumns ==
    /\ \A i \in 1..Len(extracted_data) :
          /\ ExactKeys(extracted_data[i])
          /\ extracted_data[i].File_Name \in {FileName(j) : j \in 1..logicIdx}
          /\ StringValues(extracted_data[i])
    /\ exportResult \notin {"none", "no data"} =>
          /\ exportResult = "exported"
          /\ csvFile.header = <<"File_Name", "Invoice_No", "Bill_From", "Bill_To",
                                "Invoice_Date", "CGST", "SGST", "Total">>
          /\ Len(csvFile.lines) = Len(extracted_data)
          /\ \A i \in 1..Len(extracted_data) :
                \A j \in 1..Len(csvFile.header) :
                    csvFile.lines[i][j] = extracted_data[i][csvFile.header[j]]

\* two records have been exported, one with a field that was found and one
\* with the same field empty because its label is not on the page
C22_Witness ==
    /\ exportResult = "exported"
    /\ Len(extracted_data) >= 2
    /\ \E i, j \in 1..Len(extracted_data) :
          /\ extracted_data[i].Invoice_No # <<>>
          /\ extracted_data[j].Invoice_No = <<>>
          /\ ~FindLabel(logicFiles[extracted_data[j].File_Name.i].pages[1], LabelTexts[1]).found

(***************************************************************************)
(* Claims about the GUI (checked under SpecGui and SpecGuiLive)            *)
(***************************************************************************)
\* from on_process_clicked until on_processing_complete
Processing == threads >= 1 \/ signals # << >>

\* on_processing_complete has run for the latest run of process_invoices
Reported == logicPc = "idle" /\ signals = << >> /\ guiShown # "none"

\* the latest run found no PDF document in the folder
NoPdfsFound == folder_exists /\ logicFiles = << >>

\* the latest run found documents and processed none of them
NoneProcessed == logicFiles # << >> /\ processed_count = 0

\* what process_invoices returns for a folder without PDF documents
NoFilesReturn == << >>

\* C21 as stated: the two outcomes end with different log messages and
\* on_processing_complete reacts to them differently
C21_ReportedDistinctly ==
    Reported =>
        /\ NoPdfsFound => logicLog[Len(logicLog)].event = "no files"
        /\ NoneProcessed =>
              /\ logicLog[Len(logicLog)].event = "complete"
              /\ guiShown # HandlerBranch(NoFilesReturn)

\* C21 amended: the two outcomes end with different log messages, which reach
\* the log area; on_processing_complete is handed an empty list in both and
\* reacts in the same way
C21_DistinctInLogOnly ==
    Reported =>
        /\ NoPdfsFound =>
              /\ logicLog[Len(logicLog)].event = "no files"
              /\ guiShown = "nothing extracted"
        /\ NoneProcessed =>
              /\ logicLog[Len(logicLog)].event = "complete"
              /\ guiShown = "nothing extracted"
        /\ (Len(log_text) >= 2 /\ log_text[Len(log_text)] = UiLine(guiShown))
              => log_text[Len(log_text) - 1] = logicLog[Len(logicLog)]

\* on_processing_complete has reported a run in which two documents were
\* found and none was processed
C21_Witness ==
    /\ Reported
    /\ NoneProcessed
    /\ skipped_count = 2
    /\ guiShown = "nothing extracted"

\* a click handler of the UI thread that calls set_folder, starts a
\* ProcessingThread or calls export_to_csv
UserStep == GuiSelectFolder \/ GuiProcessClicked \/ GuiExportClicked

\* C28: at most one ProcessingThread executes process_invoices at a time; from
\* on_process_clicked until on_processing_complete the three buttons are
\* disabled, and no step of the UI thread sets the folder, starts a second
\* run or exports
C28_WorkerRunsAlone ==
    [][/\ threads' <= 1
       /\ Processing =>
             /\ ~select_btn /\ ~process_btn /\ ~export_btn
             /\ ~UserStep]_vars

\* the worker has appended a record and is still in its loop, with a second
\* document to go, while an earlier run's table is on display
C28_Witness ==
    /\ threads = 1
    /\ logicPc = "loop"
    /\ Len(extracted_data) = 1
    /\ logicIdx < Len(logicFiles)
    /\ RowCount > 0
    /\ ~select_btn /\ ~process_btn /\ ~export_btn

\* C29: after Process is clicked the application eventually leaves the
\* processing state: the select and process buttons are enabled again
C29_ProcessingEnds == (~select_btn) ~> (select_btn /\ process_btn)

\* the application is idle: no run is in progress
GuiAtRest == select_btn /\ threads = 0 /\ signals = << >>

\* C30: whenever the application is idle and the Export button is enabled,
\* extracted_data is non-empty and the table shows exactly its records
C30_ExportEnabledMeansCurrentData ==
    (GuiAtRest /\ export_btn) =>
        /\ extracted_data # << >>
        /\ table = PopulateTable(extracted_data)
=============================================================================
